---- MODULE Spec2Model ----
(***************************************************************************)
(* Diff synthesis engine of the Azure DevOps AI review extension:           *)
(* fetchPRDiff (src/background.js) as a state machine, one action per host  *)
(* call or synchronous block, and generateUnifiedDiff as an operator.        *)
(*                                                                          *)
(* Representation of JavaScript strings.  A file content is the sequence of *)
(* its lines (what content.split('\n') returns; "" is the one empty line).   *)
(* A line is [len, v]: the first len characters of the character stream v,   *)
(* so that two lines are the same string iff the records are equal.  The     *)
(* text the function accumulates (fileSection, diffContent) is represented   *)
(* by its parts, each with its kind and its length in characters; the        *)
(* lengths are those of the literals in the source.                          *)
(***************************************************************************)
EXTENDS Integers, Sequences, FiniteSets, TLC

\* ------------------------------------------------------------ constants
MAX_TOTAL_CHARS == 12000
MAX_FILE_CHARS == 2500
MAX_FILES == 10
\* the tail kept free when a section is cut to the budget (substring(.. - 50))
CUT_RESERVE == 50
\* generateUnifiedDiff: result.slice(0, 150), newLines.slice(0, 200)
MAX_DIFF_LINES == 150
MAX_FULL_LINES == 200
\* Math.abs(oldIdx - i) <= 2
REMOVE_NEAR == 2
\* contextLines when scope is changes-context
CONTEXT_LINES == 5
\* changes.set(oldIdx + 10000, ..): the offset of the keys of removed lines
KEY_OFFSET == 10000

\* ------------------------------------------------------------ bounds
\* length of the largest change list the host answers with
MaxEntries == 11
\* longest of the small change lists
MaxChanges == 2
\* most commits list-commits answers with
MaxCommits == 2
\* lines of a file whose diff is taken, over all texts
MaxLines == 3
\* lines of a block handed to the decoder, over all line shapes
MaxBlock == 2
\* how far down a line of the other file is looked for in the longest search
FarDistance == 40
\* how many startReview calls pass the guard, and how many questions are asked
MaxStarts == 2
MaxHistory == 1

Min(a, b) == IF a < b THEN a ELSE b
Max(a, b) == IF a > b THEN a ELSE b

\* ------------------------------------------------------------ strings
EmptyLine == [len |-> 0, v |-> ""]
Line(v, n) == IF n = 0 THEN EmptyLine ELSE [len |-> n, v |-> v]
\* the empty string, as content.split('\n') sees it
EmptyText == <<EmptyLine>>

RECURSIVE SumLens(_)
SumLens(lines) ==
  IF lines = <<>> THEN 0 ELSE Head(lines).len + SumLens(Tail(lines))

\* text.length: the lines and the newlines between them
StrLen(text) == SumLens(text) + (Len(text) - 1)

\* text.substring(0, n); a negative n counts as 0
RECURSIVE Substring(_, _)
Substring(text, n) ==
  IF n <= 0 THEN EmptyText
  ELSE LET h == Head(text) IN
    IF Len(text) = 1 \/ n <= h.len THEN <<Line(h.v, Min(n, h.len))>>
    ELSE <<h>> \o Substring(Tail(text), n - h.len - 1)

\* digits of a number printed in decimal: String(n).length
RECURSIVE Digits(_)
Digits(n) == IF n < 10 THEN 1 ELSE 1 + Digits(n \div 10)

\* ------------------------------------------------------------ Line Differ
Scopes == {"changes-only", "changes-context", "full-file"}

\* lines.indexOf(x, from), 0-based; -1 when absent
IndexOf(lines, x, from) ==
  LET hits == {k \in from..(Len(lines) - 1) : lines[k + 1] = x}
  IN IF hits = {} THEN -1 ELSE CHOOSE k \in hits : \A m \in hits : k <= m

\* the key of a Map entry: newIdx for an add, oldIdx + 10000 for a remove
KeyOf(type, idx) == IF type = "add" THEN idx ELSE idx + KEY_OFFSET

\* the entries changes.set(..) is called with for the 0-based indices a..b-1
Marks(type, a, b) ==
  [k \in 1..(b - a) |-> [key |-> KeyOf(type, a + k - 1), type |-> type, idx |-> a + k - 1]]

\* changes.set(e.key, e): a Map keeps the place of a key it already has and
\* replaces its value; a new key goes last
MapSet(changes, e) ==
  IF \E k \in 1..Len(changes) : changes[k].key = e.key
  THEN [k \in 1..Len(changes) |-> IF changes[k].key = e.key THEN e ELSE changes[k]]
  ELSE Append(changes, e)
RECURSIVE MapSetAll(_, _)
MapSetAll(changes, es) ==
  IF es = <<>> THEN changes
  ELSE IF /\ Cardinality({es[k].key : k \in 1..Len(es)}) = Len(es)
          /\ \A c \in 1..Len(changes) : \A k \in 1..Len(es) : changes[c].key # es[k].key
       THEN changes \o es   \* new keys alone: each goes last, in order
       ELSE MapSetAll(MapSet(changes, Head(es)), Tail(es))

\* a faulty AlignStep: lines that are equal are not matched but marked
AlignStepMarksAll(oldLines, newLines, st) ==
  LET oldIdx == st.oldIdx
      newIdx == st.newIdx
  IN
  IF oldIdx >= Len(oldLines)
  THEN [st EXCEPT !.newIdx = newIdx + 1,
                  !.changes = MapSetAll(@, Marks("add", newIdx, newIdx + 1))]
  ELSE IF newIdx >= Len(newLines)
  THEN [st EXCEPT !.oldIdx = oldIdx + 1,
                  !.changes = MapSetAll(@, Marks("remove", oldIdx, oldIdx + 1))]
  ELSE [st EXCEPT !.oldIdx = oldIdx + 1, !.newIdx = newIdx + 1,
                  !.changes = MapSetAll(@, Marks("remove", oldIdx, oldIdx + 1)
                                             \o Marks("add", newIdx, newIdx + 1))]

\* a faulty AlignStep: a line that differs from the other is never passed
AlignStepStuck(oldLines, newLines, st) ==
  IF /\ st.oldIdx < Len(oldLines) /\ st.newIdx < Len(newLines)
     /\ oldLines[st.oldIdx + 1] = newLines[st.newIdx + 1]
  THEN [st EXCEPT !.oldIdx = st.oldIdx + 1, !.newIdx = st.newIdx + 1]
  ELSE st

\* one iteration of the alignment loop; st = [oldIdx, newIdx, changes], where
\* changes lists the entries of the Map in insertion order
AlignStep(oldLines, newLines, st) ==
  LET oldIdx == st.oldIdx
      newIdx == st.newIdx
      hasOld == oldIdx < Len(oldLines)
      hasNew == newIdx < Len(newLines)
  IN
  IF hasOld /\ hasNew /\ oldLines[oldIdx + 1] = newLines[newIdx + 1]
  THEN [st EXCEPT !.oldIdx = oldIdx + 1, !.newIdx = newIdx + 1]
  ELSE IF ~hasOld
  THEN [st EXCEPT !.newIdx = newIdx + 1,
                  !.changes = MapSetAll(@, Marks("add", newIdx, newIdx + 1))]
  ELSE IF ~hasNew
  THEN [st EXCEPT !.oldIdx = oldIdx + 1,
                  !.changes = MapSetAll(@, Marks("remove", oldIdx, oldIdx + 1))]
  ELSE
    LET oldInNew == IndexOf(newLines, oldLines[oldIdx + 1], newIdx)
        newInOld == IndexOf(oldLines, newLines[newIdx + 1], oldIdx)
    IN
    IF oldInNew # -1 /\ (newInOld = -1 \/ oldInNew - newIdx < newInOld - oldIdx)
    THEN [st EXCEPT !.newIdx = oldInNew,
                    !.changes = MapSetAll(@, Marks("add", newIdx, oldInNew))]
    ELSE IF newInOld # -1
    THEN [st EXCEPT !.oldIdx = newInOld,
                    !.changes = MapSetAll(@, Marks("remove", oldIdx, newInOld))]
    ELSE [st EXCEPT !.oldIdx = oldIdx + 1, !.newIdx = newIdx + 1,
                    !.changes = MapSetAll(@, Marks("remove", oldIdx, oldIdx + 1)
                                               \o Marks("add", newIdx, newIdx + 1))]

\* the state the loop starts from, and its condition
AlignStart == [oldIdx |-> 0, newIdx |-> 0, changes |-> <<>>]
AlignMore(oldLines, newLines, st) ==
  st.oldIdx < Len(oldLines) \/ st.newIdx < Len(newLines)

RECURSIVE AlignFrom(_, _, _)
AlignFrom(oldLines, newLines, st) ==
  IF AlignMore(oldLines, newLines, st)
  THEN AlignFrom(oldLines, newLines, AlignStep(oldLines, newLines, st))
  ELSE st

\* the Map the alignment loop leaves
Changes(oldLines, newLines) == AlignFrom(oldLines, newLines, AlignStart).changes

\* changedNewLines, a Set; changedOldLines, a Set read in insertion order
changedNewLines(changes) ==
  {changes[k].idx : k \in {k \in 1..Len(changes) : changes[k].type = "add"}}
IsRemove(e) == e.type # "add"
changedOldLines(changes) ==
  LET removes == SelectSeq(changes, IsRemove)
  IN [k \in 1..Len(removes) |-> removes[k].idx]

\* an output line: a two-character prefix and the text
OutLine(sym, line) == [len |-> 2 + line.len, v |-> sym \o " " \o line.v]
GapLine == [len |-> 5, v |-> "  ..."]

RECURSIVE SelectSeq2(_, _, _)
SelectSeq2(s, keep, drop) ==
  IF s = <<>> THEN <<>>
  ELSE IF (Head(s) \in keep) /\ ~(Head(s) \in drop)
       THEN <<Head(s)>> \o SelectSeq2(Tail(s), keep, drop)
       ELSE SelectSeq2(Tail(s), keep, drop)

\* the state the output loop starts from; pendingOld is changedOldLines,
\* lastOut is lastOutputLine
EmitStart(changes) ==
  [i |-> 0, pendingOld |-> changedOldLines(changes), result |-> <<>>, lastOut |-> -10]

\* a faulty EmitStep: the added line is pushed before the removed lines
EmitStepAddFirst(oldLines, newLines, scope, contextLines, changedNew, em) ==
  LET i == em.i
      near == (i - REMOVE_NEAR)..(i + REMOVE_NEAR)
      flushed == SelectSeq2(em.pendingOld, near, {})
      kept == SelectSeq2(em.pendingOld, 0..(Len(oldLines) - 1), near)
  IN
  IF i \in changedNew
  THEN [i |-> i + 1, pendingOld |-> kept,
        result |-> em.result
                     \o <<OutLine("+", newLines[i + 1])>>
                     \o [k \in 1..Len(flushed) |-> OutLine("-", oldLines[flushed[k] + 1])],
        lastOut |-> i]
  ELSE [em EXCEPT !.i = i + 1]

\* one iteration of the output loop over the new lines
EmitStep(oldLines, newLines, scope, contextLines, changedNew, em) ==
  LET i == em.i
      isChanged == i \in changedNew
      inContextRange ==
        /\ scope = "changes-context"
        /\ \E j \in Max(0, i - contextLines)..Min(Len(newLines) - 1, i + contextLines) :
             j \in changedNew
      near == (i - REMOVE_NEAR)..(i + REMOVE_NEAR)
      flushed == SelectSeq2(em.pendingOld, near, {})
      kept == SelectSeq2(em.pendingOld, 0..(Len(oldLines) - 1), near)
  IN
  IF isChanged
  THEN [i |-> i + 1, pendingOld |-> kept,
        result |-> em.result
                     \o [k \in 1..Len(flushed) |-> OutLine("-", oldLines[flushed[k] + 1])]
                     \o <<OutLine("+", newLines[i + 1])>>,
        lastOut |-> i]
  ELSE IF inContextRange
  THEN [i |-> i + 1, pendingOld |-> em.pendingOld,
        result |-> em.result
                     \o (IF i > em.lastOut + 1 /\ em.result # <<>>
                         THEN <<GapLine>> ELSE <<>>)
                     \o <<OutLine(" ", newLines[i + 1])>>,
        lastOut |-> i]
  ELSE [em EXCEPT !.i = i + 1]

\* the removed lines left over, and result.slice(0, 150)
EmitEnd(oldLines, em) ==
  LET result == em.result
        \o [k \in 1..Len(em.pendingOld) |-> OutLine("-", oldLines[em.pendingOld[k] + 1])]
  IN SubSeq(result, 1, Min(MAX_DIFF_LINES, Len(result)))

RECURSIVE EmitFrom(_, _, _, _, _, _)
EmitFrom(oldLines, newLines, scope, contextLines, changedNew, em) ==
  IF em.i >= Len(newLines) THEN EmitEnd(oldLines, em)
  ELSE EmitFrom(oldLines, newLines, scope, contextLines, changedNew,
                EmitStep(oldLines, newLines, scope, contextLines, changedNew, em))

\* String(i).padStart(4): the number behind the blanks that fill four places
PadStart4(i) ==
  LET d == ToString(i) IN SubSeq("    ", 1, 4 - Len(d)) \o d

\* "   1 | text": the line number padded to four, " | " and the text
FullLine(i, line) == [len |-> Max(4, Digits(i)) + 3 + line.len, v |-> PadStart4(i) \o " | " \o line.v]

\* newLines.slice(0, 200) numbered: what the full-file scope returns
FullFile(newContent) ==
  [i \in 1..Min(MAX_FULL_LINES, Len(newContent)) |-> FullLine(i, newContent[i])]

\* generateUnifiedDiff(oldContent, newContent, path, scope, contextLines): the
\* lines of the string it returns; <<>> is the empty string
generateUnifiedDiff(oldContent, newContent, scope, contextLines) ==
  IF scope = "full-file"
  THEN FullFile(newContent)
  ELSE
    LET changes == Changes(oldContent, newContent)
    IN IF changes = <<>> THEN <<>>
       ELSE EmitFrom(oldContent, newContent, scope, contextLines,
                     changedNewLines(changes), EmitStart(changes))

\* the length of the string whose lines are given ('' for no lines)
JoinedLen(lines) == IF lines = <<>> THEN 0 ELSE StrLen(lines)

\* ------------------------------------------------------------ host data
\* paths the host reports, as <<stem, extension>>
PathTable ==
  << <<"/f01", ".js">>, <<"/f02", ".md">>, <<"/f03", ".ts">>, <<"/f04", ".txt">>,
     <<"/f05", ".py">>, <<"/f06", ".json">>, <<"/f07", ".cs">>, <<"/f08", ".yml">>,
     <<"/f09", ".go">>, <<"/f10", ".xml">>, <<"/f11", ".rs">>, <<"/f12", ".png">>,
     <<"/f13", ".js">>, <<"/f14", ".md">>, <<"/f15", ".ts">>, <<"/f16", ".txt">> >>
PathName == [k \in 1..Len(PathTable) |-> PathTable[k][1] \o PathTable[k][2]]

codeExtensions ==
  {".js", ".ts", ".py", ".cs", ".java", ".go", ".rs", ".cpp", ".c", ".jsx", ".tsx",
   ".vue", ".rb", ".php", ".swift", ".kt"}

\* codeExtensions.some(ext => path.endsWith(ext))
IsCodePath(path) ==
  \E k \in 1..Len(PathTable) : PathName[k] = path /\ PathTable[k][2] \in codeExtensions

\* a change entry as the host sends it: item.path, path ("" when missing) and
\* the changeType code (a number, or the string the REST API prints, or "")
Entry(item, path, changeType) == [item |-> item, path |-> path, changeType |-> changeType]

\* entry.item?.path || entry.path
EntryPath(e) == IF e.item # "" THEN e.item ELSE e.path

\* how the k-th entry of a host list is made from a template <<changeType, mode>>
FromTemplate(t, k) ==
  CASE t[2] = "item" -> Entry(PathName[k], "", t[1])
    [] t[2] = "plain" -> Entry("", PathName[k], t[1])
    [] t[2] = "same" -> Entry(PathName[1], "", t[1])
    [] OTHER -> Entry("", "", t[1])

\* the list of n entries that repeats the templates of pattern
HostList(pattern, n) ==
  [k \in 1..n |-> FromTemplate(pattern[((k - 1) % Len(pattern)) + 1], k)]

\* the patterns of the small change lists
SmallPatterns ==
  { << <<"2", "item">> >>,
    << <<"1", "item">>, <<"4", "item">> >>,
    << <<"2", "same">> >>,
    << <<"edit", "item">>, <<"2", "none">> >>,
    << <<"", "plain">>, <<"2", "item">> >> }
\* the pattern of the large change list
LargePattern ==
  << <<"2", "item">>, <<"1", "item">>, <<"4", "item">>, <<"2", "none">>, <<"edit", "item">> >>
\* the patterns of the changes of one commit
CommitPatterns ==
  { << <<"2", "item">> >>, << <<"2", "same">> >>, << <<"1", "plain">>, <<"4", "item">> >> }

\* what list-changes endpoints answer with: every small list, and two large ones
HostLists ==
  {HostList(p, n) : p \in SmallPatterns, n \in 0..MaxChanges}
    \cup {HostList(LargePattern, n) : n \in {MaxEntries - 1, MaxEntries}}

CommitLists == {HostList(p, n) : p \in CommitPatterns, n \in 0..MaxChanges}

\* file contents the host serves: a short file and one long line
SmallFile == <<Line("a", 10)>>
LargeFile == <<Line("c", 3000)>>

\* an HTTP answer: status 0 is a rejected fetch; readable says whether the body
\* parses; content is the text served (<<>> when the body carries none)
Response(status, readable, content) ==
  [status |-> status, readable |-> readable, content |-> content]
NetworkError == Response(0, FALSE, <<>>)
Ok(r) == r.status >= 200 /\ r.status <= 299

ErrorStatuses == {401, 403, 404}
\* answers without a payload of interest
PlainResponses ==
  {NetworkError, Response(200, TRUE, <<>>), Response(200, FALSE, <<>>)}
    \cup {Response(s, FALSE, <<>>) : s \in ErrorStatuses}
\* answers of the items endpoint for the files of a small change list
FileResponses ==
  {NetworkError, Response(404, FALSE, <<>>), Response(200, FALSE, <<>>),
   Response(200, TRUE, EmptyText), Response(200, TRUE, SmallFile),
   Response(200, TRUE, LargeFile)}
\* and for the files of the large one: large files, served or not
LargeListResponses == {Response(404, FALSE, <<>>), Response(200, TRUE, LargeFile)}

\* the pull request as get-pull-request describes it: lengths of the title,
\* the description (0: none) and the two branch names, and whether
\* repository.id is present
PullRequests ==
  { [title |-> 20, description |-> 0, source |-> 12, target |-> 4, repoId |-> TRUE],
    [title |-> 20, description |-> 4000, source |-> 12, target |-> 4, repoId |-> FALSE] }
NoPR == [title |-> 0, description |-> 0, source |-> 0, target |-> 0, repoId |-> FALSE]

\* ------------------------------------------------------------ encoder text
getChangeTypeName(changeType) ==
  CASE changeType = "1" -> "Add"
    [] changeType = "2" -> "Edit"
    [] changeType = "4" -> "Delete"
    [] changeType = "8" -> "Rename"
    [] changeType = "16" -> "SourceRename"
    [] changeType = "" -> "Change"
    [] OTHER -> changeType

\* a piece of emitted text: its kind and its length in characters
Part(k, n) == [k |-> k, n |-> n]

RECURSIVE PartsLen(_)
PartsLen(parts) == IF parts = <<>> THEN 0 ELSE Head(parts).n + PartsLen(Tail(parts))

\* parts.substring(0, n): the whole parts that fit and what is left of the
\* part the cut falls in
RECURSIVE PartsSubstring(_, _)
PartsSubstring(parts, n) ==
  IF parts = <<>> \/ n <= 0 THEN <<>>
  ELSE IF Head(parts).n <= n
       THEN <<Head(parts)>> \o PartsSubstring(Tail(parts), n - Head(parts).n)
       ELSE <<Part("fragment", n)>>

\* `\n## ${changeType}: ${path}\n`
SectionHead(changeType, path) == Part("head", 7 + Len(changeType) + Len(path))

\* the header of the blob, lines 375-380
HeaderLen(pr, nFiles) ==
  (17 + pr.title)
    + (IF pr.description > 0 THEN 14 + pr.description ELSE 0)
    + (13 + pr.source + pr.target)
    + (21 + Digits(nFiles))

\* ------------------------------------------------------------ text, by character
\* The decoder reads the blob character by character, so the text it is given
\* is a string.  The backtick cannot be written in a string here; the
\* apostrophe stands for it, and no text of the model uses the apostrophe
\* for anything else.
Fence == "'''"
WhiteSpace == {" ", "\n", "\t", "\r", "\f"}
LineTerminators == {"\n", "\r"}
DigitChars == {"0", "1", "2", "3", "4", "5", "6", "7", "8", "9"}

CharAt(s, i) == IF i >= 1 /\ i <= Len(s) THEN SubSeq(s, i, i) ELSE ""
\* s.startsWith(p, i - 1)
StartsWith(s, p, i) == i >= 1 /\ i + Len(p) - 1 <= Len(s) /\ SubSeq(s, i, i + Len(p) - 1) = p
Occurrences(s, p) == {i \in 1..(Len(s) - Len(p) + 1) : SubSeq(s, i, i + Len(p) - 1) = p}
Least(S) == CHOOSE x \in S : \A y \in S : x <= y
Greatest(S) == 0 - Least({0 - x : x \in S})
Ordered(S) == [k \in 1..Cardinality(S) |-> CHOOSE x \in S : Cardinality({y \in S : y < x}) = k - 1]
\* how many characters of the set follow one another in s from position p on
RunLen(s, p, chars) ==
  LET stops == {i \in p..Len(s) : CharAt(s, i) \notin chars}
  IN IF stops = {} THEN Max(0, Len(s) - p + 1) ELSE Least(stops) - p

\* s.split(sep), for a separator whose occurrences cannot overlap
Split(s, sep) ==
  LET at == Ordered(Occurrences(s, sep))
      n == Len(at)
      from(k) == IF k = 1 THEN 1 ELSE at[k - 1] + Len(sep)
      to(k) == IF k = n + 1 THEN Len(s) ELSE at[k] - 1
  IN [k \in 1..(n + 1) |-> SubSeq(s, from(k), to(k))]

\* s.trim()
Trim(s) ==
  LET solid == {i \in 1..Len(s) : CharAt(s, i) \notin WhiteSpace}
  IN IF solid = {} THEN "" ELSE SubSeq(s, Least(solid), Greatest(solid))

\* ------------------------------------------------------------ Diff Decoder
\* section.match(/^(Add|Edit|Delete|Rename|Change):\s*(.+)/): \s* takes the
\* longest run of white space that leaves .+ a character which does not end
\* the line, and .+ runs to the end of that line
HeaderPrefixes == {"Add", "Edit", "Delete", "Rename", "Change"}
NoHeader == [ok |-> FALSE, type |-> "", rest |-> ""]
headerMatch(section) ==
  LET types == {t \in HeaderPrefixes : StartsWith(section, t \o ":", 1)}
  IN IF types = {} THEN NoHeader
     ELSE
       LET t == CHOOSE x \in types : TRUE
           p == Len(t) + 2
           spaces == RunLen(section, p, WhiteSpace)
           starts == {j \in 0..spaces : /\ p + j <= Len(section)
                                        /\ CharAt(section, p + j) \notin LineTerminators}
       IN IF starts = {} THEN NoHeader
          ELSE LET b == p + Greatest(starts)
                   n == RunLen(section, b, {CharAt(section, i) : i \in b..Len(section)}
                                             \ LineTerminators)
               IN [ok |-> TRUE, type |-> t, rest |-> SubSeq(section, b, b + n - 1)]

\* section.match(/```(?:diff)?\n([\s\S]*?)```/): the first fence that opens a
\* block (followed by a line end, or by "diff" and a line end) and has a
\* fence after it; the block runs to the first such fence
NoCode == [ok |-> FALSE, body |-> ""]
codeMatch(section) ==
  LET fences == Occurrences(section, Fence)
      bodyAt(i) == IF StartsWith(section, "diff\n", i + 3) THEN i + 8 ELSE i + 4
      opens == {i \in fences : /\ \/ StartsWith(section, "diff\n", i + 3)
                                  \/ StartsWith(section, "\n", i + 3)
                               /\ \E j \in fences : j >= bodyAt(i)}
  IN IF opens = {} THEN NoCode
     ELSE LET i == Least(opens)
              e == Least({j \in fences : j >= bodyAt(i)})
          IN [ok |-> TRUE, body |-> SubSeq(section, bodyAt(i), e - 1)]

\* line.match(/^L\s*(\d+)\s*([+-]?)\s*(.*)$/)
NoLine == [ok |-> FALSE, lineNum |-> "", symbol |-> "", content |-> ""]
lineMatch(line) ==
  IF ~StartsWith(line, "L", 1) THEN NoLine
  ELSE
    LET a == 2 + RunLen(line, 2, WhiteSpace)
        n == RunLen(line, a, DigitChars)
        b == a + n + RunLen(line, a + n, WhiteSpace)
        symbol == IF CharAt(line, b) \in {"+", "-"} THEN CharAt(line, b) ELSE ""
        c == b + Len(symbol) + RunLen(line, b + Len(symbol), WhiteSpace)
        content == SubSeq(line, c, Len(line))
    IN IF n = 0 \/ \E i \in c..Len(line) : CharAt(line, i) \in LineTerminators
       THEN NoLine
       ELSE [ok |-> TRUE, lineNum |-> SubSeq(line, a, a + n - 1), symbol |-> symbol,
             content |-> content]

\* what one line of the block pushes to lines: nothing, or one entry
parseLine(line) ==
  LET m == lineMatch(line) IN
  IF m.ok
  THEN <<[type |-> IF m.symbol = "+" THEN "add" ELSE IF m.symbol = "-" THEN "del"
                   ELSE "context",
          lineNum |-> m.lineNum, content |-> m.content]>>
  ELSE IF StartsWith(line, "+", 1)
  THEN <<[type |-> "add", lineNum |-> "", content |-> Trim(SubSeq(line, 2, Len(line)))]>>
  ELSE IF StartsWith(line, "-", 1)
  THEN <<[type |-> "del", lineNum |-> "", content |-> Trim(SubSeq(line, 2, Len(line)))]>>
  ELSE IF Trim(line) # ""
  THEN <<[type |-> "context", lineNum |-> "", content |-> line]>>
  ELSE <<>>

\* the members of a list of lists that hold at most one member each
Flat1(ss) ==
  LET idx == SelectSeq([k \in 1..Len(ss) |-> k], LAMBDA k : ss[k] # <<>>)
  IN [j \in 1..Len(idx) |-> ss[idx[j]][1]]

\* a decoder that gives up the block at the first line that pushes nothing
parseLinesUntilDropped(body) ==
  LET codeLines == Split(body, "\n")
      dropped == {k \in 1..Len(codeLines) : parseLine(codeLines[k]) = <<>>}
      last == IF dropped = {} THEN Len(codeLines) ELSE Least(dropped) - 1
  IN Flat1([k \in 1..last |-> parseLine(codeLines[k])])

\* the lines of a fenced block
parseLines(body) ==
  LET codeLines == Split(body, "\n")
  IN Flat1([k \in 1..Len(codeLines) |-> parseLine(codeLines[k])])

\* what one section pushes to files: nothing, or one file
parseSection(section) ==
  IF Trim(section) = "" THEN <<>>
  ELSE
    LET hm == headerMatch(section) IN
    IF ~hm.ok THEN <<>>
    ELSE
      LET cm == codeMatch(section)
          lines == IF cm.ok THEN parseLines(cm.body) ELSE <<>>
      IN IF Len(lines) > 0 \/ hm.type = "Delete"
         THEN <<[path |-> Trim(hm.rest), changeType |-> hm.type, lines |-> lines,
                 additions |-> Cardinality({k \in 1..Len(lines) : lines[k].type = "add"}),
                 deletions |-> Cardinality({k \in 1..Len(lines) : lines[k].type = "del"})]>>
         ELSE <<>>

\* parseDiff(diffContent): the files of the blob
parseDiff(diffContent) ==
  LET sections == Split(diffContent, "\n## ")
  IN Flat1([k \in 1..Len(sections) |-> parseSection(sections[k])])

\* ------------------------------------------------------------ fetchPRDiff
VARIABLES
  pc,            \* where the invocation stands
  rules,         \* the rules argument: [scope]
  prData,        \* the pull request read by the first call
  calls,         \* the host calls of the current phase (discovery, or one file)
  commitsLeft,   \* commits of method 2 whose changes are still to be fetched
  changeEntries, \* the change set
  fileIdx,       \* index into filesToProcess of the entry being processed
  totalChars,    \* the running total
  diffContent,   \* the blob: its length, its section heads, placeholders and markers
  content,       \* the text of the entry read from the source branch
  fileSection,   \* the section settled for the current entry
  outcome,       \* what happened to that section
  omitted,       \* some selected entry lost text or its section to the budget
  result,        \* what the invocation returns
  dpc,           \* where the work on one file, or on one blob, stands
  file,          \* the entry at hand: its change type, path, scope and contents
  st,            \* the alignment loop of generateUnifiedDiff
  em,            \* its output loop
  diffOut,       \* the lines of the string it returned
  rawDiff,       \* the text handed to parseDiff
  files          \* what parseDiff returned

pvars == << pc, rules, prData, calls, commitsLeft, changeEntries, fileIdx, totalChars,
            diffContent, content, fileSection, outcome, omitted, result >>
dvars == << dpc, file, st, em, diffOut, rawDiff, files >>

\* ------------------------------------------------------------ content script
\* the page of one tab (src/content/content.js): the module variables, the
\* session storage, the address and what the panel shows
VARIABLES
  location,            \* the pull request of the address, "" off a pull request page
  lastUrl,             \* the address the navigation observer saw last
  loaded,              \* init has run
  reviewPanel,         \* the panel exists
  hidden,              \* the panel is hidden
  panel,               \* what the panel shows: [view, of]
  isReviewInProgress,
  patchContent,        \* "" for null, else the pull request the blob was fetched for
  conversationHistory, \* per message the pull request whose blob it is about
  currentPrInfo,       \* "" for null, else the pullRequestId
  lastReviewResult,    \* "" for null, else the pull request that was reviewed
  sessionStorage,      \* per pull request id the saved state, <<>> for none
  reviews,             \* the startReview calls that stand at an await
  chat,                \* the blob of the CHAT request in flight, "" for none
  started              \* how many startReview calls have passed the guard

cvars == << location, lastUrl, loaded, reviewPanel, hidden, panel, isReviewInProgress,
            patchContent, conversationHistory, currentPrInfo, lastReviewResult,
            sessionStorage, reviews, chat, started >>
vars == << pvars, dvars, cvars >>

\* the pull requests of the model, and where the tab can be
PullRequestIds == {"101", "102"}
Locations == PullRequestIds \cup {""}
NoPanel == [view |-> "none", of |-> ""]
Show(view) == [view |-> view, of |-> ""]
ShowReview(of) == [view |-> "review", of |-> of]
\* lines 4-10: the script has been injected and nothing has run yet
PageIdle ==
  /\ location = ""
  /\ lastUrl = ""
  /\ loaded = FALSE
  /\ reviewPanel = FALSE
  /\ hidden = FALSE
  /\ panel = NoPanel
  /\ isReviewInProgress = FALSE
  /\ patchContent = ""
  /\ conversationHistory = <<>>
  /\ currentPrInfo = ""
  /\ lastReviewResult = ""
  /\ sessionStorage = [id \in PullRequestIds |-> <<>>]
  /\ reviews = <<>>
  /\ chat = ""
  /\ started = 0

EmptyBlob == [len |-> 0, heads |-> 0, placeholders |-> 0, marks |-> {}, more |-> 0]
MarkKinds == {"cut", "size", "more", "empty"}

RECURSIVE CountKind(_, _)
CountKind(parts, k) ==
  IF parts = <<>> THEN 0
  ELSE (IF Head(parts).k = k THEN 1 ELSE 0) + CountKind(Tail(parts), k)

\* diffContent += parts
Plus(blob, parts) ==
  [blob EXCEPT !.len = @ + PartsLen(parts),
               !.heads = @ + CountKind(parts, "head"),
               !.placeholders = @ + CountKind(parts, "unavailable") + CountKind(parts, "error"),
               !.marks = @ \cup {parts[i].k : i \in {j \in 1..Len(parts) : parts[j].k \in MarkKinds}}]

\* a host call and its answer; for a list endpoint the content is the list
Call(ep, r) == [ep |-> ep, status |-> r.status, readable |-> r.readable, content |-> r.content]

\* the entries of one group (code files, or the others) in the order they have
RECURSIVE Select(_, _)
Select(entries, code) ==
  IF entries = <<>> THEN <<>>
  ELSE IF IsCodePath(EntryPath(Head(entries))) = code
       THEN <<Head(entries)>> \o Select(Tail(entries), code)
       ELSE Select(Tail(entries), code)
\* a compare function that puts the other files first
compareFnOthersFirst(a, b) ==
  LET isCodeA == IsCodePath(EntryPath(a))
      isCodeB == IsCodePath(EntryPath(b))
  IN IF isCodeA /\ ~isCodeB THEN 1
     ELSE IF isCodeB /\ ~isCodeA THEN -1
     ELSE 0
\* lines 405-413: the compare function of the sort
compareFn(a, b) ==
  LET isCodeA == IsCodePath(EntryPath(a))
      isCodeB == IsCodePath(EntryPath(b))
  IN IF isCodeA /\ ~isCodeB THEN -1
     ELSE IF isCodeB /\ ~isCodeA THEN 1
     ELSE 0
\* Array.prototype.sort is stable: an entry goes behind the last entry that
\* does not compare greater than it, looked for from the end
RECURSIVE InsertionPoint(_, _, _)
InsertionPoint(sorted, e, j) ==
  IF j = 0 \/ compareFn(sorted[j], e) <= 0 THEN j
  ELSE InsertionPoint(sorted, e, j - 1)
InsertSorted(sorted, e) ==
  LET p == InsertionPoint(sorted, e, Len(sorted))
  IN SubSeq(sorted, 1, p) \o <<e>> \o SubSeq(sorted, p + 1, Len(sorted))
RECURSIVE Sort(_)
Sort(entries) ==
  IF entries = <<>> THEN <<>>
  ELSE InsertSorted(Sort(SubSeq(entries, 1, Len(entries) - 1)), entries[Len(entries)])
\* [...changeEntries].sort(code files first)
sortedEntries == Sort(changeEntries)
filesToProcess == SubSeq(sortedEntries, 1, Min(MAX_FILES, Len(sortedEntries)))

\* method 2: push the changes whose item.path no entry has yet
RECURSIVE MergeUnique(_, _)
MergeUnique(entries, commitChanges) ==
  IF commitChanges = <<>> THEN entries
  ELSE LET change == Head(commitChanges)
           path == change.item
           known == \E i \in 1..Len(entries) : EntryPath(entries[i]) = path
       IN MergeUnique(IF path # "" /\ ~known THEN Append(entries, change) ELSE entries,
                      Tail(commitChanges))

\* no file and no blob is being worked on
NoFile == [changeType |-> "", path |-> "", scope |-> "", big |-> FALSE, targetOk |-> FALSE,
           old |-> <<>>, new |-> <<>>, lead |-> "", blocks |-> <<>>]
EmitIdle == [i |-> 0, pendingOld |-> <<>>, result |-> <<>>, lastOut |-> -10]
DiffIdle ==
  /\ dpc = "idle"
  /\ file = NoFile
  /\ st = AlignStart
  /\ em = EmitIdle
  /\ diffOut = <<>>
  /\ rawDiff = ""
  /\ files = <<>>

Init ==
  /\ pc = "pullRequest"
  /\ rules \in [scope : Scopes]
  /\ prData = NoPR
  /\ calls = <<>>
  /\ commitsLeft = 0
  /\ changeEntries = <<>>
  /\ fileIdx = 0
  /\ totalChars = 0
  /\ diffContent = EmptyBlob
  /\ content = <<>>
  /\ fileSection = <<>>
  /\ outcome = ""
  /\ omitted = FALSE
  /\ result = [success |-> FALSE, error |-> ""]
  /\ DiffIdle
  /\ PageIdle

\* the outer catch: return { success: false, error: error.message }
Fail(message) ==
  /\ pc' = "done"
  /\ result' = [success |-> FALSE, error |-> message]

\* a rejected fetch, or a body that response.json() cannot read
Throws(r) == r.status = 0 \/ (Ok(r) /\ ~r.readable)

\* lines 263-282
GetPullRequest ==
  /\ pc = "pullRequest"
  /\ \E r \in PlainResponses, pr \in PullRequests :
       /\ calls' = Append(calls, Call("pullRequest", r))
       /\ IF r.status = 0 THEN Fail("fetch failed") /\ UNCHANGED prData
          ELSE IF r.status = 401
            THEN Fail("Azure DevOps token is invalid or expired") /\ UNCHANGED prData
          ELSE IF r.status = 403
            THEN Fail("Access denied. Check your token permissions.") /\ UNCHANGED prData
          ELSE IF ~Ok(r) THEN Fail("Azure DevOps API error") /\ UNCHANGED prData
          ELSE IF ~r.readable THEN Fail("invalid json") /\ UNCHANGED prData
          ELSE prData' = pr /\ pc' = "iterations" /\ UNCHANGED result
  /\ UNCHANGED << rules, commitsLeft, changeEntries, fileIdx, totalChars, diffContent,
                  content, fileSection, outcome, omitted >>
  /\ UNCHANGED dvars
  /\ UNCHANGED cvars

\* method 1, lines 291-302: list the iterations
ListIterations ==
  /\ pc = "iterations"
  /\ \E r \in PlainResponses, n \in 0..1 :
       /\ calls' = Append(calls, Call("iterations", r))
       /\ IF Throws(r) THEN Fail("exception")
          ELSE /\ pc' = IF Ok(r) /\ n > 0 THEN "iterationChanges" ELSE "commits"
               /\ UNCHANGED result
  /\ UNCHANGED << rules, prData, commitsLeft, changeEntries, fileIdx, totalChars,
                  diffContent, content, fileSection, outcome, omitted >>
  /\ UNCHANGED dvars
  /\ UNCHANGED cvars

\* method 1, lines 305-317: the changes of the latest iteration
GetIterationChanges ==
  /\ pc = "iterationChanges"
  /\ \E r \in PlainResponses, list \in HostLists :
       /\ calls' = Append(calls, Call("iterationChanges", [r EXCEPT !.content = IF Ok(r) /\ r.readable THEN list ELSE <<>>]))
       /\ IF Throws(r) THEN Fail("exception") /\ UNCHANGED changeEntries
          ELSE /\ changeEntries' = IF Ok(r) THEN list ELSE changeEntries
               /\ pc' = IF Len(changeEntries') = 0 THEN "commits" ELSE "build"
               /\ UNCHANGED result
  /\ UNCHANGED << rules, prData, commitsLeft, fileIdx, totalChars, diffContent,
                  content, fileSection, outcome, omitted >>
  /\ UNCHANGED dvars
  /\ UNCHANGED cvars

\* method 2, lines 321-333: list the commits
ListCommits ==
  /\ pc = "commits"
  /\ \E r \in PlainResponses, n \in 0..MaxCommits :
       /\ calls' = Append(calls, Call("commits", r))
       /\ IF Throws(r) THEN Fail("exception") /\ UNCHANGED commitsLeft
          ELSE /\ commitsLeft' = IF Ok(r) THEN n ELSE 0
               /\ pc' = IF commitsLeft' > 0 THEN "commitChanges" ELSE "branchDiff"
               /\ UNCHANGED result
  /\ UNCHANGED << rules, prData, changeEntries, fileIdx, totalChars, diffContent,
                  content, fileSection, outcome, omitted >>
  /\ UNCHANGED dvars
  /\ UNCHANGED cvars

\* method 2, lines 335-353: the changes of one commit, merged by path
GetCommitChanges ==
  /\ pc = "commitChanges"
  /\ \E r \in PlainResponses, list \in CommitLists :
       /\ calls' = Append(calls, Call("commitChanges", [r EXCEPT !.content = IF Ok(r) /\ r.readable THEN list ELSE <<>>]))
       /\ IF Throws(r) THEN Fail("exception") /\ UNCHANGED << changeEntries, commitsLeft >>
          ELSE /\ changeEntries' = IF Ok(r) THEN MergeUnique(changeEntries, list)
                                   ELSE changeEntries
               /\ commitsLeft' = commitsLeft - 1
               /\ pc' = IF commitsLeft' > 0 THEN "commitChanges"
                        ELSE IF Len(changeEntries') = 0 THEN "branchDiff" ELSE "build"
               /\ UNCHANGED result
  /\ UNCHANGED << rules, prData, fileIdx, totalChars, diffContent, content, fileSection,
                  outcome, omitted >>
  /\ UNCHANGED dvars
  /\ UNCHANGED cvars

\* method 3, lines 359-372: the diff of the two branches
DiffBranches ==
  /\ pc = "branchDiff"
  /\ \E r \in PlainResponses, list \in HostLists :
       /\ calls' = Append(calls, Call("branchDiff", [r EXCEPT !.content = IF Ok(r) /\ r.readable THEN list ELSE <<>>]))
       /\ IF Throws(r) THEN Fail("exception") /\ UNCHANGED changeEntries
          ELSE /\ changeEntries' = IF Ok(r) THEN list ELSE changeEntries
               /\ pc' = "build"
               /\ UNCHANGED result
  /\ UNCHANGED << rules, prData, commitsLeft, fileIdx, totalChars, diffContent,
                  content, fileSection, outcome, omitted >>
  /\ UNCHANGED dvars
  /\ UNCHANGED cvars

\* a faulty BuildHeader: an empty change set is reported as an error
BuildHeaderEmptyIsError ==
  /\ pc = "build"
  /\ LET header == <<Part("header", HeaderLen(prData, Len(changeEntries)))>>
     IN IF Len(changeEntries) = 0
        THEN /\ result' = [success |-> FALSE, error |-> "No file changes detected"]
             /\ pc' = "done"
             /\ UNCHANGED << calls, fileIdx, totalChars, diffContent >>
        ELSE /\ diffContent' = Plus(diffContent, header)
             /\ totalChars' = PartsLen(header)
             /\ fileIdx' = 1
             /\ calls' = <<>>
             /\ pc' = "loop"
             /\ UNCHANGED result
  /\ UNCHANGED << rules, prData, commitsLeft, changeEntries, content, fileSection,
                  outcome, omitted >>
  /\ UNCHANGED dvars
  /\ UNCHANGED cvars

\* lines 375-394: the header, and the early return of an empty change set
BuildHeader ==
  /\ pc = "build"
  /\ LET header == <<Part("header", HeaderLen(prData, Len(changeEntries)))>>
     IN IF Len(changeEntries) = 0
        THEN /\ diffContent' = Plus(Plus(diffContent, header), <<Part("empty", 95)>>)
             /\ result' = [success |-> TRUE, error |-> ""]
             /\ pc' = "done"
             /\ UNCHANGED << calls, fileIdx, totalChars >>
        ELSE /\ diffContent' = Plus(diffContent, header)
             /\ totalChars' = PartsLen(header)
             /\ fileIdx' = 1
             /\ calls' = <<>>
             /\ pc' = "loop"
             /\ UNCHANGED result
  /\ UNCHANGED << rules, prData, commitsLeft, changeEntries, content, fileSection,
                  outcome, omitted >>
  /\ UNCHANGED dvars
  /\ UNCHANGED cvars

entry == filesToProcess[fileIdx]
path == EntryPath(entry)
changeType == getChangeTypeName(entry.changeType)
scope == rules.scope
contextLines == IF scope = "changes-context" THEN CONTEXT_LINES ELSE 0

\* what the items endpoint may answer for the entry at hand
ItemResponses ==
  IF Len(changeEntries) > MaxChanges THEN LargeListResponses ELSE FileResponses

\* lines 538-543: the section is cut to the budget if it does not fit, appended
\* and counted
Settle(section) ==
  LET fits == totalChars + PartsLen(section) <= MAX_TOTAL_CHARS
      final == IF fits THEN section
               ELSE PartsSubstring(section, MAX_TOTAL_CHARS - totalChars - CUT_RESERVE)
                      \o <<Part("cut", 20)>>
  IN /\ fileSection' = final
     /\ diffContent' = Plus(diffContent, final)
     /\ totalChars' = totalChars + PartsLen(final)
     /\ outcome' = IF fits THEN "appended" ELSE "cut"
     /\ omitted' = (omitted \/ ~fits)
     /\ pc' = "fileDone"

\* a faulty CatchFile: the error ends the loop and leaves no section
CatchFileBreaks ==
  /\ pc' = "finish"
  /\ UNCHANGED << fileSection, diffContent, outcome, totalChars, omitted >>

\* lines 545-548: the per-file catch appends an error section, uncounted
CatchFile ==
  LET section == <<SectionHead(changeType, path), Part("error", 25)>>
  IN /\ fileSection' = section
     /\ diffContent' = Plus(diffContent, section)
     /\ outcome' = "error"
     /\ pc' = "fileDone"
     /\ UNCHANGED << totalChars, omitted >>

\* a fenced block of text cut to MAX_FILE_CHARS: fence, text, marker, close
Fenced(fenceLen, textLen, shownLen, markLen) ==
  <<Part("fence", fenceLen), Part("body", shownLen)>>
    \o (IF shownLen < textLen THEN <<Part("truncated", markLen)>> ELSE <<>>)
    \o <<Part("close", 5)>>

\* lines 486-493: a new file, every line of the first MAX_FILE_CHARS prefixed
AddSection(text) ==
  LET truncated == Substring(text, MAX_FILE_CHARS)
      shown == [i \in 1..Len(truncated) |-> OutLine("+", truncated[i])]
  IN <<SectionHead(changeType, path), Part("fence", 8), Part("body", StrLen(shown))>>
       \o (IF StrLen(truncated) < StrLen(text) THEN <<Part("truncated", 21)>> ELSE <<>>)
       \o <<Part("close", 5)>>

\* lines 462-470 and 520-526: the text as it is, cut to MAX_FILE_CHARS
PlainSection(text) ==
  <<SectionHead(changeType, path)>>
    \o Fenced(4, StrLen(text), Min(StrLen(text), MAX_FILE_CHARS), 16)

\* lines 501-518: the diff of the target content against the source content
DiffSection(targetContent, sourceContent) ==
  LET diffResult == generateUnifiedDiff(targetContent, sourceContent, scope, contextLines)
      n == JoinedLen(diffResult)
  IN IF n > 0
     THEN <<SectionHead(changeType, path), Part("fence", 8),
            Part("body", Min(n, MAX_FILE_CHARS))>>
            \o (IF n > MAX_FILE_CHARS THEN <<Part("truncated", 21)>> ELSE <<>>)
            \o <<Part("close", 5)>>
     ELSE <<SectionHead(changeType, path), Part("unchanged", 27)>>

\* a string the code tests for truthiness: absent and "" are falsy
Truthy(text) == text # <<>> /\ text # EmptyText

\* lines 481-535, after a structured fetch answered ok
Structured(r) ==
  IF ~r.readable THEN CatchFile /\ UNCHANGED content
  ELSE IF ~Truthy(r.content)
    THEN Settle(<<SectionHead(changeType, path), Part("binary", 23)>>) /\ UNCHANGED content
  ELSE IF changeType = "Add" THEN Settle(AddSection(r.content)) /\ content' = r.content
  ELSE /\ content' = r.content
       /\ pc' = "fetchTarget"
       /\ UNCHANGED << fileSection, diffContent, totalChars, outcome, omitted >>

\* lines 417-433: the head of the loop, up to the first await of the entry
LoopHead ==
  /\ pc = "loop"
  /\ IF fileIdx > Len(filesToProcess)
     THEN /\ pc' = "finish"
          /\ UNCHANGED << fileIdx, diffContent, totalChars, fileSection, outcome, omitted >>
     ELSE IF totalChars >= MAX_TOTAL_CHARS
     THEN /\ diffContent' = Plus(diffContent, <<Part("size", 42)>>)
          /\ omitted' = TRUE
          /\ pc' = "finish"
          /\ UNCHANGED << fileIdx, totalChars, fileSection, outcome >>
     ELSE IF path = ""
     THEN /\ fileIdx' = fileIdx + 1
          /\ pc' = "loop"
          /\ UNCHANGED << diffContent, totalChars, fileSection, outcome, omitted >>
     ELSE IF changeType = "Delete"
     THEN /\ Settle(<<SectionHead(changeType, path), Part("deleted", 15)>>)
          /\ UNCHANGED fileIdx
     ELSE /\ pc' = "fetchByName"
          /\ UNCHANGED << fileIdx, diffContent, totalChars, fileSection, outcome, omitted >>
  /\ UNCHANGED << rules, prData, calls, commitsLeft, changeEntries, content, result >>
  /\ UNCHANGED dvars
  /\ UNCHANGED cvars

\* lines 435-438: structured fetch keyed by the repository name
FetchByName ==
  /\ pc = "fetchByName"
  /\ \E r \in ItemResponses :
       /\ calls' = Append(calls, Call("name", r))
       /\ IF r.status = 0 THEN CatchFile /\ UNCHANGED content
          ELSE IF Ok(r) THEN Structured(r)
          ELSE /\ pc' = IF prData.repoId THEN "fetchById" ELSE "fetchRaw"
               /\ UNCHANGED << content, fileSection, diffContent, totalChars, outcome,
                               omitted >>
  /\ UNCHANGED << rules, prData, commitsLeft, changeEntries, fileIdx, result >>
  /\ UNCHANGED dvars
  /\ UNCHANGED cvars

\* a faulty FetchById: the raw fetch follows whatever the retry answered
FetchByIdThenRaw ==
  /\ pc = "fetchById"
  /\ \E r \in ItemResponses :
       /\ calls' = Append(calls, Call("id", r))
       /\ IF r.status = 0 THEN CatchFile /\ UNCHANGED content
          ELSE /\ pc' = "fetchRaw"
               /\ UNCHANGED << content, fileSection, diffContent, totalChars, outcome,
                               omitted >>
  /\ UNCHANGED << rules, prData, commitsLeft, changeEntries, fileIdx, result >>
  /\ UNCHANGED dvars
  /\ UNCHANGED cvars

\* lines 441-447: the same request keyed by the repository id
FetchById ==
  /\ pc = "fetchById"
  /\ \E r \in ItemResponses :
       /\ calls' = Append(calls, Call("id", r))
       /\ IF r.status = 0 THEN CatchFile /\ UNCHANGED content
          ELSE IF Ok(r) THEN Structured(r)
          ELSE /\ pc' = "fetchRaw"
               /\ UNCHANGED << content, fileSection, diffContent, totalChars, outcome,
                               omitted >>
  /\ UNCHANGED << rules, prData, commitsLeft, changeEntries, fileIdx, result >>
  /\ UNCHANGED dvars
  /\ UNCHANGED cvars

\* lines 450-479 and 532-535: the raw-text fetch
FetchRaw ==
  /\ pc = "fetchRaw"
  /\ \E r \in ItemResponses :
       /\ calls' = Append(calls, Call("raw", r))
       /\ IF r.status = 0 THEN CatchFile /\ UNCHANGED content
          ELSE IF ~Ok(r)
            THEN /\ Settle(<<SectionHead(changeType, path),
                             Part("unavailable", 29 + Digits(r.status))>>)
                 /\ UNCHANGED content
          ELSE IF ~r.readable THEN CatchFile /\ UNCHANGED content
          ELSE IF ~Truthy(r.content) THEN CatchFile /\ UNCHANGED content
          ELSE LET section == PlainSection(r.content)
                   fits == totalChars + PartsLen(section) <= MAX_TOTAL_CHARS
               IN /\ content' = r.content
                  /\ fileSection' = IF fits THEN section ELSE <<>>
                  /\ diffContent' = IF fits THEN Plus(diffContent, section) ELSE diffContent
                  /\ totalChars' = IF fits THEN totalChars + PartsLen(section) ELSE totalChars
                  /\ outcome' = IF fits THEN "appended" ELSE "dropped"
                  /\ omitted' = (omitted \/ ~fits)
                  /\ pc' = "fileDone"
  /\ UNCHANGED << rules, prData, commitsLeft, changeEntries, fileIdx, result >>
  /\ UNCHANGED dvars
  /\ UNCHANGED cvars

\* lines 496-527: the target-branch content, then the diff or the preview
FetchTarget ==
  /\ pc = "fetchTarget"
  /\ \E r \in ItemResponses :
       /\ calls' = Append(calls, Call("target", r))
       /\ IF r.status = 0 THEN CatchFile
          ELSE IF ~Ok(r) THEN Settle(PlainSection(content))
          ELSE IF ~r.readable THEN CatchFile
          ELSE Settle(DiffSection(IF r.content = <<>> THEN EmptyText ELSE r.content, content))
  /\ UNCHANGED << rules, prData, commitsLeft, changeEntries, fileIdx, content, result >>
  /\ UNCHANGED dvars
  /\ UNCHANGED cvars

\* the end of one iteration of the loop: its locals go, the next entry is taken
NextFile ==
  /\ pc = "fileDone"
  /\ fileIdx' = fileIdx + 1
  /\ calls' = <<>>
  /\ content' = <<>>
  /\ fileSection' = <<>>
  /\ outcome' = ""
  /\ pc' = "loop"
  /\ UNCHANGED << rules, prData, commitsLeft, changeEntries, totalChars, diffContent,
                  omitted, result >>
  /\ UNCHANGED dvars
  /\ UNCHANGED cvars

\* lines 551-563: the note on the files beyond MAX_FILES, and the return
Finish ==
  /\ pc = "finish"
  /\ diffContent' =
       IF Len(changeEntries) > MAX_FILES
       THEN [Plus(diffContent,
                  <<Part("more", 35 + Digits(Len(changeEntries) - MAX_FILES))>>)
               EXCEPT !.more = Len(changeEntries) - MAX_FILES]
       ELSE diffContent
  /\ result' = [success |-> TRUE, error |-> ""]
  /\ pc' = "done"
  /\ UNCHANGED << rules, prData, calls, commitsLeft, changeEntries, fileIdx, totalChars,
                  content, fileSection, outcome, omitted >>
  /\ UNCHANGED dvars
  /\ UNCHANGED cvars

Next ==
  \/ GetPullRequest
  \/ ListIterations
  \/ GetIterationChanges
  \/ ListCommits
  \/ GetCommitChanges
  \/ DiffBranches
  \/ BuildHeader
  \/ LoopHead
  \/ FetchByName
  \/ FetchById
  \/ FetchRaw
  \/ FetchTarget
  \/ NextFile
  \/ Finish

Spec == Init /\ [][Next]_vars

\* ------------------------------------------------------------ one file, to the viewer
\* The path of one file from its two contents to the viewer: the section
\* fetchPRDiff builds for it (generateUnifiedDiff run one loop iteration at a
\* time) and what parseDiff makes of the text; and texts handed to parseDiff
\* as they are.

\* a line whose text is the string s
Str(s) == [len |-> Len(s), v |-> s]
Texts == {"a", "b", ""}
RegularFiles == UNION {[1..n -> {Str(t) : t \in Texts}] : n \in 1..MaxLines}
\* contents whose lines look like the marks of the blob
SpecialFiles ==
  { <<Str(" x")>>, <<Str("+p")>>, <<Str("L1 q")>>, <<Str("'''"), Str("a")>>,
    <<Str("## h"), Str("a")>> }
\* a file of 10000 lines whose first line is edited and which gets one more line
BigOld == [i \in 1..KEY_OFFSET |-> Str(IF i = 1 THEN "b" ELSE "a")]
BigNew == [i \in 1..(KEY_OFFSET + 1) |->
             Str(IF i = 1 THEN "c" ELSE IF i = KEY_OFFSET + 1 THEN "d" ELSE "a")]
ChangeTypeCodes == {"1", "2", "4", "8", "16", "", "edit"}

EditedFiles ==
  [changeType : {"2"}, path : {PathName[1]}, scope : Scopes, big : {FALSE},
   targetOk : {TRUE}, old : RegularFiles, new : RegularFiles, lead : {""}, blocks : {<<>>}]
MarkedFiles ==
  [changeType : {"2", "1"}, path : {PathName[2]}, scope : Scopes, big : {FALSE},
   targetOk : BOOLEAN, old : {<<Str("a")>>}, new : SpecialFiles, lead : {""},
   blocks : {<<>>}]
TypedFiles ==
  [changeType : ChangeTypeCodes, path : {PathName[1]}, scope : {"changes-only"},
   big : {FALSE}, targetOk : BOOLEAN, old : {<<Str("a")>>},
   new : {<<Str("b")>>, <<Str("a")>>, <<Str("a"), Str("b")>>}, lead : {""}, blocks : {<<>>}]
BigFiles ==
  [changeType : {"2"}, path : {PathName[1]}, scope : Scopes, big : {TRUE},
   targetOk : {TRUE}, old : {<<>>}, new : {<<>>}, lead : {""}, blocks : {<<>>}]
\* a file of one line that is longer than MAX_FILE_CHARS, added or edited
RECURSIVE Repeat(_, _)
Repeat(s, n) ==
  IF n = 0 THEN ""
  ELSE LET half == Repeat(s, n \div 2)
       IN half \o half \o (IF n % 2 = 1 THEN s ELSE "")
LongText == Repeat("c", MAX_FILE_CHARS + 1)
LongFiles ==
  [changeType : {"1", "2"}, path : {PathName[1]}, scope : {"changes-only"}, big : {FALSE},
   targetOk : BOOLEAN, old : {<<Str("a")>>}, new : {<<Str(LongText)>>}, lead : {""},
   blocks : {<<>>}]
\* an edited file whose old line comes back FarDistance lines further down
FarOld == <<Str("b")>>
FarNew == [i \in 1..(FarDistance + 1) |-> Str(IF i = FarDistance + 1 THEN "b" ELSE "a")]
FarFiles ==
  [changeType : {"2"}, path : {PathName[1]}, scope : Scopes, big : {FALSE},
   targetOk : {TRUE}, old : {FarOld}, new : {FarNew}, lead : {""}, blocks : {<<>>}]
\* an edited file whose cursors are KEY_OFFSET lines apart at a modified line
ApartOld == <<Str("m"), Str("z")>>
ApartNew ==
  [i \in 1..(KEY_OFFSET + 2) |->
     Str(IF i = KEY_OFFSET + 1 THEN "m" ELSE IF i = KEY_OFFSET + 2 THEN "y" ELSE "a")]
ApartFiles ==
  [changeType : {"2"}, path : {PathName[1]}, scope : {"changes-only"}, big : {FALSE},
   targetOk : {TRUE}, old : {ApartOld}, new : {ApartNew}, lead : {""}, blocks : {<<>>}]
FileInputs ==
  EditedFiles \cup MarkedFiles \cup TypedFiles \cup BigFiles \cup LongFiles \cup FarFiles

fileOld == IF file.big THEN BigOld ELSE file.old
fileNew == IF file.big THEN BigNew ELSE file.new

\* lines.join('\n') of lines given with their texts
RECURSIVE JoinText(_, _, _)
JoinText(lines, a, b) ==
  IF a > b THEN ""
  ELSE IF a = b THEN lines[a].v
  ELSE LET m == (a + b) \div 2
       IN JoinText(lines, a, m) \o "\n" \o JoinText(lines, m + 1, b)
TextOf(lines) == JoinText(lines, 1, Len(lines))
\* s.substring(0, n)
Prefix(s, n) == SubSeq(s, 1, Min(Len(s), Max(n, 0)))

\* lines 375-380 for a pull request titled "t" from branch "s" to branch "m"
\* with one changed file; ">" stands for the arrow
HeaderText == "# Pull Request: t\n" \o "\nBranch: s > m\n" \o "Files changed: 1\n\n---\n"
\* line 429
SectionHeadText(name, p) == "\n## " \o name \o ": " \o p \o "\n"
\* an opening fence, the text cut to MAX_FILE_CHARS, the mark if it was cut,
\* and the closing fence
FencedText(open, text, mark) ==
  open \o Prefix(text, MAX_FILE_CHARS)
    \o (IF Len(text) > MAX_FILE_CHARS THEN mark ELSE "")
    \o "\n" \o Fence \o "\n"
\* lines 486-493
AddText(text) ==
  LET truncated == Split(Prefix(text, MAX_FILE_CHARS), "\n")
      shown == [k \in 1..Len(truncated) |-> Str("+ " \o truncated[k])]
  IN (Fence \o "diff\n") \o TextOf(shown)
       \o (IF Len(text) > MAX_FILE_CHARS THEN "\n... (file truncated)" ELSE "")
       \o "\n" \o Fence \o "\n"
\* lines 538-542 for the one section behind the header
SettleText(section) ==
  IF Len(HeaderText) + Len(section) > MAX_TOTAL_CHARS
  THEN HeaderText \o Prefix(section, MAX_TOTAL_CHARS - Len(HeaderText) - CUT_RESERVE)
         \o "\n...(truncated)\n" \o Fence \o "\n"
  ELSE HeaderText \o section

\* lines 429-433 and 481-499: the sections that need no diff
StartFile ==
  /\ dpc = "file"
  /\ LET name == getChangeTypeName(file.changeType)
         head == SectionHeadText(name, file.path)
         text == TextOf(fileNew)
         toViewer(section) == /\ rawDiff' = SettleText(section)
                              /\ dpc' = "decode"
     IN IF name = "Delete" THEN toViewer(head \o "(File deleted)\n")
        ELSE IF text = "" THEN toViewer(head \o "(Binary or empty file)\n")
        ELSE IF name = "Add" THEN toViewer(head \o AddText(text))
        ELSE IF ~file.targetOk
        THEN toViewer(head \o FencedText(Fence \o "\n", text, "\n... (truncated)"))
        ELSE dpc' = "diff" /\ UNCHANGED rawDiff
  /\ UNCHANGED << file, st, em, diffOut, files >>
  /\ UNCHANGED pvars
  /\ UNCHANGED cvars

\* lines 659-679: the full-file scope returns at once
EnterDiff ==
  /\ dpc = "diff"
  /\ IF file.scope = "full-file"
     THEN diffOut' = FullFile(fileNew) /\ dpc' = "append"
     ELSE dpc' = "align" /\ UNCHANGED diffOut
  /\ st' = AlignStart
  /\ UNCHANGED << file, em, rawDiff, files >>
  /\ UNCHANGED pvars
  /\ UNCHANGED cvars

\* lines 681-723: one iteration of the alignment loop
AlignLoop ==
  /\ dpc = "align"
  /\ AlignMore(fileOld, fileNew, st)
  /\ st' = AlignStep(fileOld, fileNew, st)
  /\ UNCHANGED << dpc, file, em, diffOut, rawDiff, files >>
  /\ UNCHANGED pvars
  /\ UNCHANGED cvars

\* lines 725-743: no change returns ''; else the two sets are filled
CollectChanges ==
  /\ dpc = "align"
  /\ ~AlignMore(fileOld, fileNew, st)
  /\ IF st.changes = <<>>
     THEN diffOut' = <<>> /\ dpc' = "append" /\ UNCHANGED em
     ELSE em' = EmitStart(st.changes) /\ dpc' = "emit" /\ UNCHANGED diffOut
  /\ UNCHANGED << file, st, rawDiff, files >>
  /\ UNCHANGED pvars
  /\ UNCHANGED cvars

\* lines 745-782: one iteration of the output loop
EmitLoop ==
  /\ dpc = "emit"
  /\ em.i < Len(fileNew)
  /\ em' = EmitStep(fileOld, fileNew, file.scope,
                    IF file.scope = "changes-context" THEN CONTEXT_LINES ELSE 0,
                    changedNewLines(st.changes), em)
  /\ UNCHANGED << dpc, file, st, diffOut, rawDiff, files >>
  /\ UNCHANGED pvars
  /\ UNCHANGED cvars

\* lines 784-789
ReturnDiff ==
  /\ dpc = "emit"
  /\ em.i >= Len(fileNew)
  /\ diffOut' = EmitEnd(fileOld, em)
  /\ dpc' = "append"
  /\ UNCHANGED << file, st, em, rawDiff, files >>
  /\ UNCHANGED pvars
  /\ UNCHANGED cvars

\* lines 506-518 and 538-542: the section of an edited file
AppendDiff ==
  /\ dpc = "append"
  /\ LET head == SectionHeadText(getChangeTypeName(file.changeType), file.path)
         diffResult == TextOf(diffOut)
     IN rawDiff' = SettleText(
          IF Len(diffResult) > 0
          THEN head \o FencedText(Fence \o "diff\n", diffResult, "\n... (diff truncated)")
          ELSE head \o "(No text changes detected)\n")
  /\ dpc' = "decode"
  /\ UNCHANGED << file, st, em, diffOut, files >>
  /\ UNCHANGED pvars
  /\ UNCHANGED cvars

\* texts handed to parseDiff as they are: a lead, then a section "Edit" with
\* a diff block of the lines blocks[1] and, if there is a blocks[2], a
\* section "Add" with a plain block of these lines
Leads == {"", "\n", HeaderText \o "\n"}
Numbered(n, symbol, text) == "L " \o n \o " " \o symbol \o " " \o text
LineNumbers == {"3", "4", "12"}
OpTexts == {"console.log(1)", "console.log(2)"}
ScenarioBlocks ==
  { <<Numbered(n, "+", t1), Numbered(m, "-", t2)>> :
      n \in LineNumbers, m \in LineNumbers, t1 \in OpTexts, t2 \in OpTexts }
BlockLines == {"", "   ", "L x", "@@ -1 +1 @@", "+ ok", "L 7 z", "## h", "x" \o Fence}
Blocks == UNION {[1..n -> BlockLines] : n \in 1..MaxBlock}
StrLines(b) == [k \in 1..Len(b) |-> Str(b[k])]
SectionText(head, open, b) == "## " \o head \o "\n" \o open \o TextOf(StrLines(b)) \o "\n" \o Fence
Scenario(lead, b) == lead \o SectionText("Edit: src/a.js", Fence \o "diff\n", b)
TwoSections(lead, b1, b2) ==
  Scenario(lead, b1) \o "\n\n" \o SectionText("Add: b.txt", Fence \o "\n", b2) \o "\n"
BlobInputs ==
  [changeType : {""}, path : {""}, scope : {""}, big : {FALSE}, targetOk : {FALSE},
   old : {<<>>}, new : {<<>>}, lead : Leads, blocks : {<<b>> : b \in ScenarioBlocks}]
  \cup
  [changeType : {""}, path : {""}, scope : {""}, big : {FALSE}, targetOk : {FALSE},
   old : {<<>>}, new : {<<>>}, lead : {"\n"},
   blocks : {<<b1, <<l>> >> : b1 \in Blocks, l \in BlockLines}]
BlobOf(f) ==
  IF Len(f.blocks) = 1 THEN Scenario(f.lead, f.blocks[1])
  ELSE TwoSections(f.lead, f.blocks[1], f.blocks[2])

\* renderDiff: the text goes through parseDiff
Decode ==
  /\ dpc = "decode"
  /\ files' = parseDiff(rawDiff)
  /\ dpc' = "decoded"
  /\ UNCHANGED << file, st, em, diffOut, rawDiff >>
  /\ UNCHANGED pvars
  /\ UNCHANGED cvars

\* the pipeline at rest
PipelineIdle ==
  /\ pc = "idle"
  /\ rules = [scope |-> "changes-only"]
  /\ prData = NoPR
  /\ calls = <<>>
  /\ commitsLeft = 0
  /\ changeEntries = <<>>
  /\ fileIdx = 0
  /\ totalChars = 0
  /\ diffContent = EmptyBlob
  /\ content = <<>>
  /\ fileSection = <<>>
  /\ outcome = ""
  /\ omitted = FALSE
  /\ result = [success |-> FALSE, error |-> ""]

DiffInit ==
  /\ PipelineIdle
  /\ PageIdle
  /\ st = AlignStart
  /\ em = EmitIdle
  /\ diffOut = <<>>
  /\ files = <<>>
  /\ \/ /\ dpc = "file"
        /\ file \in FileInputs
        /\ rawDiff = ""
     \/ /\ dpc = "decode"
        /\ file \in BlobInputs
        /\ rawDiff = BlobOf(file)

DiffNext ==
  \/ StartFile
  \/ EnterDiff
  \/ AlignLoop
  \/ CollectChanges
  \/ EmitLoop
  \/ ReturnDiff
  \/ AppendDiff
  \/ Decode

DiffSpec == DiffInit /\ [][DiffNext]_vars

\* ------------------------------------------------------------ the alignment loop alone
\* lines 681-723 as a function of the two files: the loop runs from its
\* start to its end
AlignInit ==
  /\ PipelineIdle
  /\ PageIdle
  /\ dpc = "align"
  /\ file \in EditedFiles \cup FarFiles \cup BigFiles \cup ApartFiles
  /\ st = AlignStart
  /\ em = EmitIdle
  /\ diffOut = <<>>
  /\ rawDiff = ""
  /\ files = <<>>

AlignNext == AlignLoop

AlignSpec == AlignInit /\ [][AlignNext]_vars
\* the loop is a synchronous while loop: an iteration that can run does run
LiveInit == AlignInit /\ file \in EditedFiles \cup FarFiles
AlignLive == LiveInit /\ [][AlignNext]_vars /\ WF_vars(AlignLoop)

\* ------------------------------------------------------------ the page: its handlers
\* lines 16-30: saveState, given the values the variables have when it runs
Saved(review, history, patch) ==
  <<[lastReviewResult |-> review, conversationHistory |-> history, patchContent |-> patch,
     fresh |-> TRUE]>>
saveState(review, history, patch) ==
  IF currentPrInfo = "" THEN sessionStorage
  ELSE [sessionStorage EXCEPT ![currentPrInfo] = Saved(review, history, patch)]

\* lines 33-52: loadState for the pull request id: whether a state less than
\* an hour old was found, and the three variables as it leaves them
loadState(id) ==
  LET kept == sessionStorage[id] IN
  IF id # "" /\ kept # <<>> /\ kept[1].fresh
  THEN [ok |-> TRUE, lastReviewResult |-> kept[1].lastReviewResult,
        conversationHistory |-> kept[1].conversationHistory,
        patchContent |-> kept[1].patchContent]
  ELSE [ok |-> FALSE, lastReviewResult |-> lastReviewResult,
        conversationHistory |-> conversationHistory, patchContent |-> patchContent]

\* lines 61-92: init, a second after the script was injected
init ==
  /\ ~loaded
  /\ loaded' = TRUE
  /\ lastUrl' = location
  /\ IF location # ""
     THEN LET got == loadState(location) IN
          /\ currentPrInfo' = location
          /\ reviewPanel' = TRUE
          /\ lastReviewResult' = got.lastReviewResult
          /\ conversationHistory' = got.conversationHistory
          /\ patchContent' = got.patchContent
          /\ panel' = IF got.ok /\ got.lastReviewResult # ""
                      THEN ShowReview(got.lastReviewResult) ELSE Show("ready")
     ELSE UNCHANGED << currentPrInfo, reviewPanel, lastReviewResult, conversationHistory,
                       patchContent, panel >>
  /\ UNCHANGED << location, hidden, isReviewInProgress, sessionStorage, reviews, chat,
                  started >>
  /\ UNCHANGED << pvars, dvars >>

\* the single-page application moves the tab to another address
Navigate ==
  /\ \E to \in Locations \ {location} : location' = to
  /\ UNCHANGED << lastUrl, loaded, reviewPanel, hidden, panel, isReviewInProgress,
                  patchContent, conversationHistory, currentPrInfo, lastReviewResult,
                  sessionStorage, reviews, chat, started >>
  /\ UNCHANGED << pvars, dvars >>

\* lines 131-178: the observer sees a new address and calls onNavigate
onNavigate ==
  /\ loaded
  /\ location # lastUrl
  /\ lastUrl' = location
  /\ LET samePR == currentPrInfo # "" /\ currentPrInfo = location
         got == loadState(location)
         restored == got.ok /\ got.lastReviewResult # ""
     IN
     IF location = ""
     THEN /\ hidden' = reviewPanel
          /\ UNCHANGED << currentPrInfo, reviewPanel, panel, isReviewInProgress, patchContent,
                          conversationHistory, lastReviewResult >>
     ELSE IF ~reviewPanel
     THEN /\ currentPrInfo' = location
          /\ reviewPanel' = TRUE
          /\ lastReviewResult' = got.lastReviewResult
          /\ conversationHistory' = got.conversationHistory
          /\ patchContent' = got.patchContent
          /\ panel' = IF restored THEN ShowReview(got.lastReviewResult) ELSE Show("ready")
          /\ UNCHANGED << hidden, isReviewInProgress >>
     ELSE IF samePR
     THEN /\ hidden' = FALSE
          /\ UNCHANGED << currentPrInfo, reviewPanel, panel, isReviewInProgress, patchContent,
                          conversationHistory, lastReviewResult >>
     ELSE /\ hidden' = FALSE
          /\ currentPrInfo' = location
          /\ lastReviewResult' = got.lastReviewResult
          /\ IF restored
             THEN /\ conversationHistory' = got.conversationHistory
                  /\ patchContent' = got.patchContent
                  /\ panel' = ShowReview(got.lastReviewResult)
                  /\ UNCHANGED isReviewInProgress
             ELSE \* resetReviewState, lines 180-185
                  /\ isReviewInProgress' = FALSE
                  /\ patchContent' = ""
                  /\ conversationHistory' = <<>>
                  /\ panel' = Show("ready")
          /\ UNCHANGED reviewPanel
  /\ UNCHANGED << location, loaded, sessionStorage, reviews, chat, started >>
  /\ UNCHANGED << pvars, dvars >>

\* a click on Start, Refresh or Retry: lines 570-590 of startReview, up to
\* its first await
startReview ==
  /\ loaded /\ reviewPanel /\ ~hidden
  /\ started < MaxStarts
  /\ ~isReviewInProgress
  /\ IF location = ""
     THEN /\ panel' = Show("error")
          /\ isReviewInProgress' = FALSE
          /\ UNCHANGED << currentPrInfo, reviews, started >>
     ELSE /\ isReviewInProgress' = TRUE
          /\ currentPrInfo' = location
          /\ panel' = Show("loading")
          /\ reviews' = Append(reviews, [at |-> "token", prInfo |-> location])
          /\ started' = started + 1
  /\ UNCHANGED << location, lastUrl, loaded, reviewPanel, hidden, patchContent,
                  conversationHistory, lastReviewResult, sessionStorage, chat >>
  /\ UNCHANGED << pvars, dvars >>

Without(s, i) == SubSeq(s, 1, i - 1) \o SubSeq(s, i + 1, Len(s))
\* the review at place i leaves startReview: the finally of line 648
Leave(i, view) ==
  /\ panel' = view
  /\ isReviewInProgress' = FALSE
  /\ reviews' = Without(reviews, i)

\* lines 592-599: the answer to GET_AZURE_TOKEN
TokenAnswer ==
  /\ \E i \in 1..Len(reviews) : \E answer \in {"token", "none", "throws"} :
       /\ reviews[i].at = "token"
       /\ CASE answer = "token" -> /\ reviews' = [reviews EXCEPT ![i].at = "diff"]
                                   /\ UNCHANGED << panel, isReviewInProgress >>
            [] answer = "none" -> Leave(i, Show("no-token"))
            [] OTHER -> Leave(i, Show("error"))
  /\ UNCHANGED << location, lastUrl, loaded, reviewPanel, hidden, patchContent,
                  conversationHistory, currentPrInfo, lastReviewResult, sessionStorage, chat,
                  started >>
  /\ UNCHANGED << pvars, dvars >>

\* lines 601-633: the answer to FETCH_PR_DIFF, up to the next await
DiffAnswer ==
  /\ \E i \in 1..Len(reviews) : \E answer \in {"diff", "empty", "failed", "throws"} :
       /\ reviews[i].at = "diff"
       /\ CASE answer = "diff" -> /\ patchContent' = reviews[i].prInfo
                                  /\ reviews' = [reviews EXCEPT ![i].at = "review"]
                                  /\ UNCHANGED << panel, isReviewInProgress >>
            [] answer = "empty" -> /\ patchContent' = ""
                                   /\ Leave(i, Show("error"))
            [] OTHER -> /\ Leave(i, Show("error"))
                        /\ UNCHANGED patchContent
  /\ UNCHANGED << location, lastUrl, loaded, reviewPanel, hidden, conversationHistory,
                  currentPrInfo, lastReviewResult, sessionStorage, chat, started >>
  /\ UNCHANGED << pvars, dvars >>

\* lines 635-650: the answer to REVIEW_CODE
ReviewAnswer ==
  /\ \E i \in 1..Len(reviews) :
     \E answer \in {"review", "no-provider", "error", "throws"} :
       /\ reviews[i].at = "review"
       /\ IF answer = "review"
          THEN /\ lastReviewResult' = reviews[i].prInfo
               /\ conversationHistory' = <<>>
               /\ sessionStorage' = saveState(reviews[i].prInfo, <<>>, patchContent)
               /\ Leave(i, ShowReview(reviews[i].prInfo))
          ELSE /\ Leave(i, Show(IF answer = "no-provider" THEN "no-provider" ELSE "error"))
               /\ UNCHANGED << lastReviewResult, conversationHistory, sessionStorage >>
  /\ UNCHANGED << location, lastUrl, loaded, reviewPanel, hidden, patchContent, currentPrInfo,
                  chat, started >>
  /\ UNCHANGED << pvars, dvars >>

\* lines 653-694: askQuestion up to its await; the input is disabled until
\* the answer is there
askQuestion ==
  /\ loaded /\ reviewPanel /\ ~hidden
  /\ panel.view = "review"
  /\ chat = ""
  /\ patchContent # ""
  /\ Len(conversationHistory) < MaxHistory
  /\ conversationHistory' = Append(conversationHistory, patchContent)
  /\ chat' = patchContent
  /\ UNCHANGED << location, lastUrl, loaded, reviewPanel, hidden, panel, isReviewInProgress,
                  patchContent, currentPrInfo, lastReviewResult, sessionStorage, reviews,
                  started >>
  /\ UNCHANGED << pvars, dvars >>

\* lines 696-724: the answer to CHAT
ChatAnswer ==
  /\ chat # ""
  /\ \E success \in BOOLEAN :
       conversationHistory' =
         IF success THEN Append(conversationHistory, chat) ELSE conversationHistory
  /\ chat' = ""
  /\ UNCHANGED << location, lastUrl, loaded, reviewPanel, hidden, panel, isReviewInProgress,
                  patchContent, currentPrInfo, lastReviewResult, sessionStorage, reviews,
                  started >>
  /\ UNCHANGED << pvars, dvars >>

\* lines 554-568: a click on the clear button of a shown review
clearReview ==
  /\ loaded /\ reviewPanel /\ ~hidden
  /\ panel.view = "review"
  /\ lastReviewResult' = ""
  /\ conversationHistory' = <<>>
  /\ patchContent' = ""
  /\ sessionStorage' = IF currentPrInfo = "" THEN sessionStorage
                       ELSE [sessionStorage EXCEPT ![currentPrInfo] = <<>>]
  /\ panel' = Show("ready")
  /\ UNCHANGED << location, lastUrl, loaded, reviewPanel, hidden, isReviewInProgress,
                  currentPrInfo, reviews, chat, started >>
  /\ UNCHANGED << pvars, dvars >>

\* an hour passes: what is saved is too old for loadState (line 40)
HourPasses ==
  /\ \E id \in PullRequestIds : sessionStorage[id] # <<>> /\ sessionStorage[id][1].fresh
  /\ sessionStorage' =
       [id \in PullRequestIds |->
          IF sessionStorage[id] = <<>> THEN <<>>
          ELSE <<[sessionStorage[id][1] EXCEPT !.fresh = FALSE]>>]
  /\ UNCHANGED << location, lastUrl, loaded, reviewPanel, hidden, panel, isReviewInProgress,
                  patchContent, conversationHistory, currentPrInfo, lastReviewResult, reviews,
                  chat, started >>
  /\ UNCHANGED << pvars, dvars >>

\* the script is injected into a tab at some address
PageInit ==
  /\ PipelineIdle
  /\ DiffIdle
  /\ location \in Locations
  /\ lastUrl = ""
  /\ loaded = FALSE
  /\ reviewPanel = FALSE
  /\ hidden = FALSE
  /\ panel = NoPanel
  /\ isReviewInProgress = FALSE
  /\ patchContent = ""
  /\ conversationHistory = <<>>
  /\ currentPrInfo = ""
  /\ lastReviewResult = ""
  /\ sessionStorage = [id \in PullRequestIds |-> <<>>]
  /\ reviews = <<>>
  /\ chat = ""
  /\ started = 0

PageNext ==
  \/ init
  \/ Navigate
  \/ onNavigate
  \/ startReview
  \/ TokenAnswer
  \/ DiffAnswer
  \/ ReviewAnswer
  \/ askQuestion
  \/ ChatAnswer
  \/ clearReview
  \/ HourPasses

PageSpec == PageInit /\ [][PageNext]_vars


\* ------------------------------------------------------------ observations
Returned == pc = "done" /\ result.success
DiscoveryEndpoints == {"iterations", "iterationChanges", "commits", "commitChanges", "branchDiff"}
ContentEndpoints == {"name", "id", "raw"}
Called(ep) == \E i \in 1..Len(calls) : calls[i].ep = ep
\* the entries of the change set that have a path
RECURSIVE WithPath(_)
WithPath(entries) ==
  IF entries = <<>> THEN 0
  ELSE (IF EntryPath(Head(entries)) # "" THEN 1 ELSE 0) + WithPath(Tail(entries))

\* ------------------------------------------------------------ claims

\* C1 (as claimed): the text fetchPRDiff returns, with its header, sections,
\* placeholders and markers, is at most MAX_TOTAL_CHARS characters long.
C1_BudgetInvariant == Returned => diffContent.len <= MAX_TOTAL_CHARS

\* C2 (as claimed): whenever an entry selected for processing lost its section
\* or part of it to the global budget, the returned text carries an explicit
\* truncation marker, on every retrieval path.
C2_TruncationVisible ==
  (Returned /\ omitted) => diffContent.marks \cap {"cut", "size"} # {}

\* C3 (as claimed): a truncated blob carries a marker with a number of omitted
\* files, and the number is that of the entries for which no section was emitted.
C3_OmittedCountExact ==
  (Returned /\ (omitted \/ Len(changeEntries) > MAX_FILES))
    => /\ "more" \in diffContent.marks
       /\ diffContent.more = WithPath(changeEntries) - diffContent.heads

\* what one strategy left in changeEntries, read off the discovery calls
RECURSIVE ListsOf(_, _)
ListsOf(log, ep) ==
  IF log = <<>> THEN <<>>
  ELSE (IF Head(log).ep = ep THEN <<Head(log).content>> ELSE <<>>) \o ListsOf(Tail(log), ep)
RECURSIVE MergeAll(_, _)
MergeAll(entries, lists) ==
  IF lists = <<>> THEN entries
  ELSE MergeAll(MergeUnique(entries, Head(lists)), Tail(lists))
Strategy1Result ==
  LET l == ListsOf(calls, "iterationChanges") IN IF l = <<>> THEN <<>> ELSE l[1]
Strategy2Result == MergeAll(<<>>, ListsOf(calls, "commitChanges"))
Strategy3Result ==
  LET l == ListsOf(calls, "branchDiff") IN IF l = <<>> THEN <<>> ELSE l[1]
InDiscovery == Called("pullRequest")

\* C4 (as claimed): a later strategy is called only if every earlier one
\* yielded nothing, the first non-empty list is the change set, and once
\* strategies 1 and 2 yielded nothing strategy 3 is invoked, its result is the
\* change set and fetchPRDiff returns success.
C4_FallbackChain ==
  InDiscovery =>
    /\ Called("commits") => Strategy1Result = <<>>
    /\ Called("branchDiff") => Strategy1Result = <<>> /\ Strategy2Result = <<>>
    /\ pc = "build" =>
         changeEntries = IF Strategy1Result # <<>> THEN Strategy1Result
                         ELSE IF Strategy2Result # <<>> THEN Strategy2Result
                         ELSE Strategy3Result
    /\ (pc \in {"build", "done"} /\ Called("branchDiff")) =>
         /\ changeEntries = Strategy3Result
         /\ pc = "done" => result.success

\* a strategy call that failed otherwise than by 401/403
FailedCall(c) == c.status = 0 \/ ~(c.status >= 200 /\ c.status <= 299)
NonAuthFailure(c) ==
  /\ c.ep \in DiscoveryEndpoints
  /\ c.status \notin {401, 403}
  /\ (FailedCall(c) \/ ~c.readable)

\* C5 (as claimed): a failure of a strategy's call other than 401/403, be it a
\* status, a rejected call or an unreadable body, never makes fetchPRDiff
\* return success:false.
C5_StrategyFailureNotFatal ==
  (\E i \in 1..Len(calls) : NonAuthFailure(calls[i])) => ~(pc = "done" /\ ~result.success)

\* C6 (as claimed): a 401 or 403 answer to the pull-request call or to any
\* discovery call ends the invocation with an error, and no call follows it.
C6_AuthFailureFatal ==
  \A i \in 1..Len(calls) :
    (calls[i].ep \in DiscoveryEndpoints \cup {"pullRequest"} /\ calls[i].status \in {401, 403})
      => i = Len(calls) /\ pc = "done" /\ ~result.success

\* all three strategies ran to their end and none left an entry
AllStrategiesEmpty ==
  /\ pc = "done"
  /\ Called("branchDiff")
  /\ LET last == calls[Len(calls)] IN ~(last.status = 0 \/ (~FailedCall(last) /\ ~last.readable))
  /\ Strategy3Result = <<>>
FilePhase == {"loop", "fetchByName", "fetchById", "fetchRaw", "fetchTarget", "fileDone", "finish"}

\* C7: when all three strategies yield nothing the invocation returns success
\* with the header and the no-changes notice and nothing else, and the file
\* loop, with its content fetches, is entered only for a non-empty change set.
C7_EmptyChangeSet ==
  /\ AllStrategiesEmpty =>
       /\ result.success
       /\ diffContent.len = HeaderLen(prData, 0) + 95
       /\ diffContent.marks = {"empty"}
       /\ diffContent.heads = 0
       /\ fileIdx = 0
       /\ \A i \in 1..Len(calls) : calls[i].ep \notin ContentEndpoints \cup {"target"}
  /\ (pc \in FilePhase \/ fileIdx > 0) => Len(changeEntries) > 0
C7_Witness ==
  /\ AllStrategiesEmpty
  /\ Called("iterations") /\ Called("commits")
  /\ result.success /\ "empty" \in diffContent.marks

\* C8 (as claimed): no two entries of the change set the blob is built from
\* have the same path, whichever strategy produced the set.
C8_UniquePaths ==
  pc \in FilePhase \cup {"build"} =>
    \A i, j \in 1..Len(changeEntries) :
      (i # j /\ EntryPath(changeEntries[i]) # "")
        => EntryPath(changeEntries[i]) # EntryPath(changeEntries[j])

\* the retrieval attempts made for the entry at hand
RECURSIVE AttemptsOf(_)
AttemptsOf(log) ==
  IF log = <<>> THEN <<>>
  ELSE (IF Head(log).ep \in ContentEndpoints THEN <<Head(log)>> ELSE <<>>)
         \o AttemptsOf(Tail(log))
attempts == IF pc \in FilePhase THEN AttemptsOf(calls) ELSE <<>>
Rank(ep) == CASE ep = "name" -> 1 [] ep = "id" -> 2 [] OTHER -> 3

\* C9: the attempts for one file are made in the order name, id, raw; an
\* attempt is made only if every earlier one failed; the content the section
\* is built from is the one the first successful attempt returned.
C9_RetrievalOrder ==
  /\ attempts # <<>> => attempts[1].ep = "name"
  /\ \A i, j \in 1..Len(attempts) :
       i < j => /\ Rank(attempts[i].ep) < Rank(attempts[j].ep)
                /\ FailedCall(attempts[i])
  /\ (pc \in {"fetchTarget", "fileDone"} /\ content # <<>>) =>
       /\ attempts # <<>>
       /\ ~FailedCall(attempts[Len(attempts)])
       /\ content = attempts[Len(attempts)].content
C9_Witness ==
  /\ pc = "fileDone"
  /\ Len(attempts) = 3
  /\ attempts[2].ep = "id" /\ FailedCall(attempts[2])
  /\ attempts[3].ep = "raw" /\ ~FailedCall(attempts[3])
  /\ content = attempts[3].content /\ content # <<>>
  /\ outcome = "appended"

\* every retrieval attempt for the entry at hand has failed, none is pending
AllAttemptsFailed ==
  /\ attempts # <<>>
  /\ \A i \in 1..Len(attempts) : FailedCall(attempts[i])
  /\ pc \notin {"fetchById", "fetchRaw"}
IsPlaceholder(part) == part.k \in {"unavailable", "error"}

\* C10 (as claimed): when every attempt for a file fails the blob holds a
\* placeholder section for it, the later files are processed and the
\* invocation returns success.
C10_PlaceholderAlways ==
  /\ AllAttemptsFailed =>
       /\ pc = "fileDone"
       /\ Len(fileSection) = 2
       /\ fileSection[1] = SectionHead(changeType, path)
       /\ IsPlaceholder(fileSection[2])
  /\ (pc = "done" /\ fileIdx > 0) => result.success

\* C10 (amended): when every attempt for a file fails its section is a
\* placeholder section: appended whole after a rejected call, appended whole
\* after error statuses if it fits the budget, and otherwise cut to the budget
\* and closed by the truncation marker; the loop goes on to the next entry and
\* the invocation returns success.
C10_PlaceholderOrCut ==
  /\ AllAttemptsFailed =>
       /\ pc = "fileDone"
       /\ fileSection # <<>>
       /\ \/ /\ outcome \in {"error", "appended"}
             /\ Len(fileSection) = 2
             /\ fileSection[1] = SectionHead(changeType, path)
             /\ IsPlaceholder(fileSection[2])
             /\ outcome = "error" <=> attempts[Len(attempts)].status = 0
          \/ /\ outcome = "cut"
             /\ attempts[Len(attempts)].status # 0
             /\ fileSection[Len(fileSection)] = Part("cut", 20)
             /\ totalChars - PartsLen(fileSection) + 7 + Len(changeType) + Len(path) + 32
                  > MAX_TOTAL_CHARS
       /\ ~(result.error # "")
  /\ (pc = "done" /\ fileIdx > 0) => result.success
C10_Witness ==
  /\ AllAttemptsFailed
  /\ Len(attempts) = 3
  /\ outcome = "appended"
  /\ fileIdx = 2
  /\ diffContent.placeholders = 2

\* ------------------------------------------------------------ Line Differ claims
\* the alignment loop has run to its end
Aligned == dpc = "align" /\ ~AlignMore(fileOld, fileNew, st)
\* the 0-based indices the Map marks with the type
MarkedAs(type) ==
  {st.changes[k].idx : k \in {k \in 1..Len(st.changes) : st.changes[k].type = type}}
\* the lines of a content that are not marked, in file order
Unmarked(lines, marked) ==
  LET left == SelectSeq([k \in 1..Len(lines) |-> k], LAMBDA k : (k - 1) \notin marked)
  IN [j \in 1..Len(left) |-> lines[left[j]]]

\* C11 (as claimed): the classification the alignment loop leaves is a valid
\* edit script: the old lines not marked remove and the new lines not marked
\* add are the same lines in the same order, every mark names a line of its
\* file, and no line is marked twice.
C11_ValidEditScript ==
  Aligned =>
    /\ Unmarked(fileOld, MarkedAs("remove")) = Unmarked(fileNew, MarkedAs("add"))
    /\ MarkedAs("remove") \subseteq 0..(Len(fileOld) - 1)
    /\ MarkedAs("add") \subseteq 0..(Len(fileNew) - 1)
    /\ Len(st.changes) = Cardinality(MarkedAs("remove")) + Cardinality(MarkedAs("add"))

\* the same for files of fewer than 10000 lines
C11_SmallFiles == (Aligned /\ ~file.big) => C11_ValidEditScript

\* the entry at hand is one whose section is the diff of its two contents
Diffed ==
  /\ file.blocks = <<>>
  /\ file.targetOk
  /\ getChangeTypeName(file.changeType) \notin {"Delete", "Add"}
  /\ fileNew # EmptyText
\* generateUnifiedDiff has returned
DiffReturned == Diffed /\ dpc \in {"append", "decode", "decoded"}
\* the symbol an output line starts with
SymbolOf(line) == CharAt(line.v, 1)
\* the text of an output line, behind its symbol and the blank
TextBehind(line) == SubSeq(line.v, 3, Len(line.v))
OpLines(symbol) == SelectSeq(diffOut, LAMBDA l : SymbolOf(l) = symbol)

\* C12: for identical old and new content the alignment marks no line and
\* the output holds no add and no remove line, in each of the three scopes;
\* outside the full-file scope the output is empty, and the viewer counts
\* no addition and no deletion.
C12_IdenticalNoOps ==
  (DiffReturned /\ fileOld = fileNew) =>
    /\ st.changes = <<>>
    /\ OpLines("+") = <<>> /\ OpLines("-") = <<>>
    /\ file.scope # "full-file" => diffOut = <<>>
    /\ dpc = "decoded" => \A k \in 1..Len(files) :
                            files[k].additions = 0 /\ files[k].deletions = 0
C12_Witness ==
  /\ DiffReturned /\ dpc = "decoded"
  /\ fileOld = fileNew
  /\ Len(fileNew) = 3 /\ fileNew[1] # fileNew[2]
  /\ file.scope = "changes-context"
  /\ files = <<>>

\* the add lines of the output, one for each line of the content
AddsOf(lines) == [k \in 1..Len(lines) |-> OutLine("+", lines[k])]
\* the content without the empty piece a closing line end leaves behind
WithoutClosingPiece(lines) ==
  IF Len(lines) > 1 /\ lines[Len(lines)] = EmptyLine
  THEN SubSeq(lines, 1, Len(lines) - 1) ELSE lines

\* C13 (as claimed): with empty old content the output is one add line for
\* each line of the new content, in file order, and no remove line.
C13_EmptyOldAllAdds ==
  (DiffReturned /\ fileOld = EmptyText /\ file.scope = "changes-only") =>
    /\ OpLines("-") = <<>>
    /\ diffOut \in {AddsOf(fileNew), AddsOf(WithoutClosingPiece(fileNew))}

\* old and new have the same length and differ in line k alone, and neither
\* version of that line occurs later in the other file
SingleModification(k) ==
  /\ Len(fileOld) = Len(fileNew)
  /\ k \in 1..Len(fileNew)
  /\ \A j \in 1..Len(fileNew) : (fileOld[j] # fileNew[j]) <=> (j = k)
  /\ \A j \in (k + 1)..Len(fileNew) : fileNew[j] # fileOld[k] /\ fileOld[j] # fileNew[k]

\* C14: for a single-line modification at line k in the changes-only scope
\* the alignment marks old line k remove and new line k add, and the output
\* is the remove line of the old text followed by the add line of the new.
C14_SingleLineModification ==
  \A k \in 1..MaxLines :
    (DiffReturned /\ ~file.big /\ file.scope = "changes-only" /\ SingleModification(k)) =>
      /\ st.changes = Marks("remove", k - 1, k) \o Marks("add", k - 1, k)
      /\ diffOut = <<OutLine("-", fileOld[k]), OutLine("+", fileNew[k])>>
C14_Witness ==
  /\ DiffReturned /\ dpc = "decoded"
  /\ file.scope = "changes-only"
  /\ Len(fileNew) = 3
  /\ SingleModification(2)
  /\ Len(diffOut) = 2
  /\ Len(files) = 1 /\ files[1].deletions = 1 /\ files[1].additions = 1

\* ------------------------------------------------------------ Encoder / Decoder claims
\* the text at the viewer is a section fetchPRDiff built, and it is decoded
Encoded == file.blocks = <<>> /\ dpc \in {"decode", "decoded"}
Decoded == dpc = "decoded"
TypeName == getChangeTypeName(file.changeType)
KindOf(symbol) == IF symbol = "+" THEN "add" ELSE IF symbol = "-" THEN "del" ELSE "context"
\* the ops the encoder wrote into the block of the section, as (kind, text)
WrittenOps ==
  IF TypeName = "Delete" \/ fileNew = EmptyText THEN <<>>
  ELSE IF TypeName = "Add"
  THEN [k \in 1..Len(fileNew) |-> [kind |-> "add", text |-> fileNew[k].v]]
  ELSE IF ~file.targetOk \/ file.scope = "full-file"
  THEN [k \in 1..Min(MAX_FULL_LINES, Len(fileNew)) |-> [kind |-> "context", text |-> fileNew[k].v]]
  ELSE LET ops == SelectSeq(diffOut, LAMBDA l : l # GapLine)
       IN [k \in 1..Len(ops) |-> [kind |-> KindOf(SymbolOf(ops[k])), text |-> TextBehind(ops[k])]]
\* the block of the section holds line ops (an added file, or the output of
\* generateUnifiedDiff in a scope that writes + and - lines)
LineOpsWritten == TypeName = "Add" \/ (file.targetOk /\ file.scope # "full-file")
\* the (kind, text) pairs of a decoded file
PairsOf(f) == [k \in 1..Len(f.lines) |-> [kind |-> f.lines[k].type, text |-> f.lines[k].content]]

\* C15 (as claimed): decoding a section the encoder emitted gives one file
\* with the change type and the path of the section and with the (kind, text)
\* pairs of the ops written into its block, in their order, whatever the
\* texts are.
C15_RoundTrip ==
  (Encoded /\ Decoded /\ ~file.big /\ LineOpsWritten /\ WrittenOps # <<>>) =>
    /\ Len(files) = 1
    /\ files[1].changeType = TypeName
    /\ files[1].path = file.path
    /\ PairsOf(files[1]) = WrittenOps

\* the blob at the viewer is the scenario: one Edit section with a numbered
\* add line and a numbered remove line
ScenarioOf(n, t1, m, t2) == << <<Numbered(n, "+", t1), Numbered(m, "-", t2)>> >>
ScenarioFile(n, t1, m, t2) ==
  [path |-> "src/a.js", changeType |-> "Edit",
   lines |-> << [type |-> "add", lineNum |-> n, content |-> t1],
                [type |-> "del", lineNum |-> m, content |-> t2] >>,
   additions |-> 1, deletions |-> 1]

\* C16 (as claimed): a blob of one section "## Edit: <path>" with a fenced
\* diff block of the lines "L <n> + <text>" and "L <m> - <text>" decodes to
\* exactly one file with that path, change type Edit and the two ops in
\* order (add at n, remove at m), whatever precedes the section marker,
\* nothing at all included.
C16_ScenarioDecoded ==
  \A n \in LineNumbers, m \in LineNumbers, t1 \in OpTexts, t2 \in OpTexts :
    (Decoded /\ file.blocks = ScenarioOf(n, t1, m, t2)) =>
      files = << ScenarioFile(n, t1, m, t2) >>

\* the same with text before the section marker (holds)
C16_AfterText ==
  \A n \in LineNumbers, m \in LineNumbers, t1 \in OpTexts, t2 \in OpTexts :
    (Decoded /\ file.blocks = ScenarioOf(n, t1, m, t2) /\ file.lead # "") =>
      files = << ScenarioFile(n, t1, m, t2) >>

\* the section header line fetchPRDiff wrote for the file (line 429), and the
\* header line the same template gives for a decoded file
HeaderLine(name, p) == "## " \o name \o ": " \o p
WrittenHeaders == << HeaderLine(TypeName, file.path) >>
ReencodedHeaders == [k \in 1..Len(files) |-> HeaderLine(files[k].changeType, files[k].path)]

\* C17 (as claimed): decoding a blob of the encoder and writing each decoded
\* file again as "## <changeType>: <path>" gives the section header lines of
\* the blob, the same bytes in the same order: none lost, added or altered.
C17_HeadersReproduced ==
  (Encoded /\ Decoded) => ReencodedHeaders = WrittenHeaders

\* the line of an op in the form "L<lineNumber> <symbol> <text>"
NumberedLine(n, symbol, text) == "L" \o ToString(n) \o " " \o symbol \o " " \o text
\* an output line of generateUnifiedDiff is the numbered line of its op: a
\* remove of a line of the old file, an add or a context of a line of the new
IsNumberedOp(line) ==
  LET side == IF SymbolOf(line) = "-" THEN fileOld ELSE fileNew
      symbol == IF SymbolOf(line) \in {"+", "-"} THEN SymbolOf(line) ELSE ""
  IN \E n \in 1..Len(side) : line.v = NumberedLine(n, symbol, side[n].v)

\* C18 (as claimed): in the fenced block of a section every op is written as
\* "L<lineNumber> <symbol> <text>", the symbol being "+", "-" or empty, the
\* number being the line of the new file for an add or a context op and the
\* line of the old file for a remove op. For an added file the blob holds the
\* line "L<k> + <text>" for each line k of the file.
C18_NumberedLines ==
  /\ (DiffReturned /\ ~file.big) =>
       \A k \in 1..Len(diffOut) : diffOut[k] = GapLine \/ IsNumberedOp(diffOut[k])
  /\ (Encoded /\ ~file.big /\ TypeName = "Add" /\ fileNew # EmptyText) =>
       \A k \in 1..Len(fileNew) :
         Occurrences(rawDiff, "\n" \o NumberedLine(k, "+", fileNew[k].v) \o "\n") # {}

\* the piece of the blob that starts behind the section marker the encoder wrote
WrittenSection == Split(rawDiff, "\n## ")[2]

\* C19 (as claimed): the name getChangeTypeName puts into the header of a
\* section, for any change type of the host, is one of the prefixes of the
\* decoder, and the decoder's header pattern accepts the section with that
\* name and the path written: no section is discarded for its prefix.
C19_VocabularyAgrees ==
  (Encoded /\ Decoded) =>
    /\ TypeName \in HeaderPrefixes
    /\ headerMatch(WrittenSection).ok
    /\ headerMatch(WrittenSection).type = TypeName

\* the blob at the viewer is a literal text of two sections
TwoBlocks == Len(file.blocks) = 2
\* block lines that are text of the block: no section marker at their start,
\* no fence in them
PlainLines == BlockLines \ {"## h", "x" \o Fence}
PlainBlocks == \A k \in 1..Len(file.blocks) : \A j \in 1..Len(file.blocks[k]) :
                 file.blocks[k][j] \in PlainLines
Op(type, lineNum, text) == [type |-> type, lineNum |-> lineNum, content |-> text]
\* what each plain line is by the grammar of section 4.5 of the specification
ExpectedOp(line) ==
  CASE line = "" -> <<>>
    [] line = "   " -> <<>>
    [] line = "L x" -> <<Op("context", "", "L x")>>
    [] line = "@@ -1 +1 @@" -> <<Op("context", "", "@@ -1 +1 @@")>>
    [] line = "+ ok" -> <<Op("add", "", "ok")>>
    [] line = "L 7 z" -> <<Op("context", "7", "z")>>
ExpectedLines(b) == Flat1([k \in 1..Len(b) |-> ExpectedOp(b[k])])
ExpectedFile(p, type, b) ==
  LET lines == ExpectedLines(b) IN
  IF lines = <<>> THEN <<>>
  ELSE <<[path |-> p, changeType |-> type, lines |-> lines,
          additions |-> Cardinality({k \in 1..Len(lines) : lines[k].type = "add"}),
          deletions |-> Cardinality({k \in 1..Len(lines) : lines[k].type = "del"})]>>
WellFormed(f) ==
  /\ DOMAIN f = {"path", "changeType", "lines", "additions", "deletions"}
  /\ f.changeType \in HeaderPrefixes
  /\ \A k \in 1..Len(f.lines) : f.lines[k].type \in {"add", "del", "context"}
  /\ f.additions + f.deletions <= Len(f.lines)

\* C20: parseDiff returns a list of files for every text it is given; a
\* line of a block that fits none of the line grammars (an empty or blank
\* line) pushes nothing and is dropped alone: every other line of the block
\* is decoded, in order, and so are the lines of the other section.
C20_MalformedDroppedAlone ==
  Decoded =>
    /\ \A k \in 1..Len(files) : WellFormed(files[k])
    /\ (TwoBlocks /\ PlainBlocks) =>
         files = ExpectedFile("src/a.js", "Edit", file.blocks[1])
                   \o ExpectedFile("b.txt", "Add", file.blocks[2])
\* a blank line and a line with an op in the first block, both sections decoded
C20_Witness ==
  /\ Decoded /\ TwoBlocks
  /\ file.blocks[1] = <<"   ", "+ ok">>
  /\ file.blocks[2] = <<"L 7 z">>
  /\ Len(files) = 2
  /\ files[1].lines = <<Op("add", "", "ok")>>

\* ------------------------------------------------------------ Budget Allocator: the order
\* the entries are being processed
Processing == pc \in {"loop", "fetchByName", "fetchRaw", "fetchTarget", "fileDone"}
IsCodeEntry(e) == IsCodePath(EntryPath(e))
\* the change set with the code files first, each group in discovery order
Partitioned == Select(changeEntries, TRUE) \o Select(changeEntries, FALSE)

\* C21: the entries are processed in the order of a stable partition of the
\* change set: every entry whose path ends with a code extension comes before
\* every entry whose path does not, and each of the two groups keeps the
\* order of discovery (the list is the first MAX_FILES entries of it).
C21_StablePartition ==
  Processing =>
    LET processed == filesToProcess
        isCode == [k \in 1..Len(processed) |-> IsCodeEntry(processed[k])]
    IN /\ processed = SubSeq(Partitioned, 1, Min(MAX_FILES, Len(changeEntries)))
       /\ \A i \in 1..Len(processed) : \A j \in (i + 1)..Len(processed) :
            isCode[j] => isCode[i]
\* a change set that the sort reorders: an entry of the other files was
\* discovered before a code file, and both groups have two entries or more
C21_Witness ==
  /\ Processing
  /\ \E i \in 1..Len(changeEntries) : \E j \in (i + 1)..Len(changeEntries) :
       ~IsCodeEntry(changeEntries[i]) /\ IsCodeEntry(changeEntries[j])
  /\ Len(Select(changeEntries, TRUE)) >= 2
  /\ Len(Select(changeEntries, FALSE)) >= 2
  /\ filesToProcess # SubSeq(changeEntries, 1, Len(filesToProcess))

\* ------------------------------------------------------------ Line Differ: context
Abs(x) == IF x < 0 THEN 0 - x ELSE x
\* generateUnifiedDiff has returned for a file in the changes-context scope
ContextReturned == DiffReturned /\ file.scope = "changes-context" /\ st.changes # <<>>
AddedLines == changedNewLines(st.changes)
RemovedLines == {changedOldLines(st.changes)[k] : k \in 1..Len(changedOldLines(st.changes))}
\* the 0-based line i of the new file is within n lines of an added or of a
\* removed line
NearChange(i, n) ==
  \/ \E j \in AddedLines : Abs(i - j) <= n
  \/ \E o \in RemovedLines : Abs(i - o) <= n
\* the unchanged lines of the new file that the claim wants as context
ContextDue ==
  LET due == {i \in 0..(Len(fileNew) - 1) : i \notin AddedLines /\ NearChange(i, CONTEXT_LINES)}
      order == Ordered(due)
  IN [k \in 1..Len(order) |-> OutLine(" ", fileNew[order[k] + 1])]
\* the lines of the new file that are written, and the runs of skipped lines
\* between two of them
WrittenDue ==
  {i \in 0..(Len(fileNew) - 1) : i \in AddedLines \/ NearChange(i, CONTEXT_LINES)}
GapsDue == Cardinality({i \in WrittenDue : i - 1 \notin WrittenDue /\ \E j \in WrittenDue : j < i})
IsGap(line) == line = GapLine
IsContext(line) == SymbolOf(line) = " " /\ line # GapLine

\* C22 (as claimed): in the changes-context scope the context lines of the
\* output are the unchanged lines within CONTEXT_LINES lines of an added or
\* of a removed line, all of them and no other, and each run of skipped
\* lines between two written lines is one ellipsis line.
C22_ContextAroundChanges ==
  (ContextReturned /\ Len(em.result) + Len(em.pendingOld) <= MAX_DIFF_LINES) =>
    /\ SelectSeq(diffOut, IsContext) = ContextDue
    /\ Len(SelectSeq(diffOut, IsGap)) = GapsDue

\* the same around added lines alone (holds): the context lines are the
\* unchanged lines within CONTEXT_LINES lines of an added line
ContextOfAdds ==
  LET due == {i \in 0..(Len(fileNew) - 1) :
                i \notin AddedLines /\ \E j \in AddedLines : Abs(i - j) <= CONTEXT_LINES}
      order == Ordered(due)
  IN [k \in 1..Len(order) |-> OutLine(" ", fileNew[order[k] + 1])]
C22_AroundAdds ==
  (ContextReturned /\ Len(em.result) + Len(em.pendingOld) <= MAX_DIFF_LINES) =>
    SelectSeq(diffOut, IsContext) = ContextOfAdds

\* ------------------------------------------------------------ Encoder / Decoder: kinds
OnlyOps(f, type) == \A k \in 1..Len(f.lines) : f.lines[k].type = type

\* C23 (as claimed): the file decoded from the section of an added file holds
\* add ops alone and the file decoded from the section of a deleted file
\* holds remove ops alone, also when the content of the section was cut.
C23_AddDeleteKinds ==
  (Encoded /\ Decoded) =>
    \A k \in 1..Len(files) :
      /\ TypeName = "Add" => OnlyOps(files[k], "add")
      /\ TypeName = "Delete" => OnlyOps(files[k], "del")
\* the same for sections whose content fits MAX_FILE_CHARS (holds)
C23_Uncut ==
  (Encoded /\ Decoded /\ Len(TextOf(fileNew)) <= MAX_FILE_CHARS) =>
    \A k \in 1..Len(files) :
      /\ TypeName = "Add" => OnlyOps(files[k], "add")
      /\ TypeName = "Delete" => OnlyOps(files[k], "del")

\* ------------------------------------------------------------ Line Differ: the alignment loop
\* the loop stands before an iteration
Aligning == dpc = "align" /\ AlignMore(fileOld, fileNew, st)
\* both cursors are on a line and the two lines differ
Mismatch ==
  /\ Aligning
  /\ st.oldIdx < Len(fileOld) /\ st.newIdx < Len(fileNew)
  /\ fileOld[st.oldIdx + 1] # fileNew[st.newIdx + 1]
\* the forward distances of the two searches, -1 for no match
Distance1 ==
  LET at == IndexOf(fileNew, fileOld[st.oldIdx + 1], st.newIdx)
  IN IF at = -1 THEN -1 ELSE at - st.newIdx
Distance2 ==
  LET at == IndexOf(fileOld, fileNew[st.newIdx + 1], st.oldIdx)
  IN IF at = -1 THEN -1 ELSE at - st.oldIdx
\* what the iteration does to the cursors and to the Map
Iterated == AlignStep(fileOld, fileNew, st)
Marked == SubSeq(Iterated.changes, Len(st.changes) + 1, Len(Iterated.changes))
OneLineModification ==
  /\ Iterated.oldIdx = st.oldIdx + 1
  /\ Iterated.newIdx = st.newIdx + 1
  /\ Marked = Marks("remove", st.oldIdx, st.oldIdx + 1) \o Marks("add", st.newIdx, st.newIdx + 1)

\* C24 (as claimed): the two forward searches of a mismatch look at a window
\* of W lines behind each cursor, and a match further away than W counts as
\* not found, so that the mismatch is handled as a one-line modification;
\* W is some number below FarDistance, the longest distance of the model.
C24_BoundedLookahead ==
  (Mismatch /\ ~file.big) =>
    \E W \in 1..(FarDistance - 1) :
      ((Distance1 = -1 \/ Distance1 > W) /\ (Distance2 = -1 \/ Distance2 > W))
        => OneLineModification

\* the entries of the Map as (type, line), and what the iteration recorded:
\* the entries the Map holds after it and did not hold before
EntriesOf(changes) == {<<changes[k].type, changes[k].idx>> : k \in 1..Len(changes)}
Recorded == EntriesOf(Iterated.changes) \ EntriesOf(st.changes)
OnlyNewAdvances(d) == Iterated.oldIdx = st.oldIdx /\ Iterated.newIdx = st.newIdx + d
OnlyOldAdvances(d) == Iterated.oldIdx = st.oldIdx + d /\ Iterated.newIdx = st.newIdx

\* C25 (as claimed): at a mismatch at cursors (i, j), with d1 the forward
\* distance to old[i] in new and d2 the forward distance to new[j] in old:
\* if d1 alone exists, or both and d1 < d2, the new lines j..j+d1-1 are
\* marked add and the new cursor alone advances; else if d2 exists the old
\* lines i..i+d2-1 are marked remove and the old cursor alone advances; else
\* one remove and one add are recorded and both cursors advance by one.
C25_MismatchRule ==
  Mismatch =>
    IF Distance1 # -1 /\ (Distance2 = -1 \/ Distance1 < Distance2)
    THEN /\ Recorded = {<<"add", k>> : k \in st.newIdx..(st.newIdx + Distance1 - 1)}
         /\ OnlyNewAdvances(Distance1)
    ELSE IF Distance2 # -1
    THEN /\ Recorded = {<<"remove", k>> : k \in st.oldIdx..(st.oldIdx + Distance2 - 1)}
         /\ OnlyOldAdvances(Distance2)
    ELSE /\ Recorded = {<<"remove", st.oldIdx>>, <<"add", st.newIdx>>}
         /\ Iterated.oldIdx = st.oldIdx + 1
         /\ Iterated.newIdx = st.newIdx + 1
\* the same for files below KEY_OFFSET lines (holds)
C25_SmallFiles ==
  (Len(fileOld) < KEY_OFFSET /\ Len(fileNew) < KEY_OFFSET) => C25_MismatchRule

\* ------------------------------------------------------------ Budget Allocator: the running total
\* C26 (as claimed): whenever the loop stands between two files (a section
\* was appended, cut to fit or skipped, or the error path was taken), the
\* running total equals the length of the text accumulated so far.
C26_TotalIsBlobLength ==
  (pc = "loop" /\ fileIdx >= 1) => totalChars = diffContent.len

\* ------------------------------------------------------------ Encoder: truncation
\* part of the diff or of the content of the file is not in its section
LeftOut ==
  IF Diffed
  THEN \/ file.scope = "full-file" /\ Len(fileNew) > MAX_FULL_LINES
       \/ file.scope # "full-file" /\ Len(em.result) + Len(em.pendingOld) > MAX_DIFF_LINES
       \/ JoinedLen(diffOut) > MAX_FILE_CHARS
  ELSE /\ TypeName # "Delete"
       /\ ~file.big
       /\ Len(TextOf(fileNew)) > MAX_FILE_CHARS
\* the section says that it was cut
MarkerWritten == Occurrences(rawDiff, "truncated") # {}

\* C27 (as claimed): a section that leaves out part of the diff or of the
\* content of its file (by the cap of MAX_FILE_CHARS characters, by the cap
\* of MAX_DIFF_LINES output lines or by the cap of MAX_FULL_LINES lines of
\* the full-file scope) carries a truncation marker.
C27_TruncationMarked ==
  (Encoded /\ LeftOut) => MarkerWritten
\* the same for the cap of MAX_FILE_CHARS characters alone (holds)
C27_CharCapMarked ==
  (Encoded /\ ~file.big /\ Len(TextOf(fileNew)) > MAX_FILE_CHARS /\ TypeName # "Delete")
    => MarkerWritten

\* C28: the alignment loop ends for all old and new lines: an iteration
\* moves no cursor backwards and moves one of them forwards at least, no
\* cursor passes the end of its file, so that the loop has ended after
\* len(old) + len(new) iterations at most, and it does end.
C28_AlignmentTerminates ==
  /\ [][AlignLoop => /\ st'.oldIdx >= st.oldIdx
                     /\ st'.newIdx >= st.newIdx
                     /\ st'.oldIdx + st'.newIdx > st.oldIdx + st.newIdx]_vars
  /\ [](st.oldIdx <= Len(fileOld) /\ st.newIdx <= Len(fileNew))
  /\ <>(dpc = "align" /\ ~AlignMore(fileOld, fileNew, st))
\* the loop has ended behind both files after it marked lines
C28_Witness ==
  /\ dpc = "align"
  /\ ~AlignMore(fileOld, fileNew, st)
  /\ st.oldIdx = Len(fileOld) /\ st.newIdx = Len(fileNew)
  /\ Len(fileOld) = MaxLines /\ Len(fileNew) = MaxLines
  /\ Len(st.changes) >= 2

\* ------------------------------------------------------------ the page: claims
\* what is saved under the pull request id is of that pull request
SavedIsOf(id) ==
  LET kept == sessionStorage[id] IN
  kept # <<>> =>
    /\ kept[1].lastReviewResult = id
    /\ kept[1].patchContent = id
    /\ \A k \in 1..Len(kept[1].conversationHistory) : kept[1].conversationHistory[k] = id

\* C29 (as claimed): the review result, the conversation history and the
\* blob saved under the id of a pull request were produced by a review of
\* that pull request, and the review the panel shows for the pull request
\* of currentPrInfo is a review of it, under every interleaving of
\* startReview with navigation to another pull request.
C29_StateKeyedByPullRequest ==
  /\ \A id \in PullRequestIds : SavedIsOf(id)
  /\ (panel.view = "review" /\ currentPrInfo # "") => panel.of = currentPrInfo

\* C30 (as claimed): one review at most is in flight on the page: no
\* startReview passes the guard while an earlier one stands at an await, and
\* isReviewInProgress is false when no review is in flight.
C30_SingleReviewInFlight ==
  /\ Len(reviews) <= 1
  /\ reviews = <<>> => ~isReviewInProgress
\* the second half alone (holds): the flag is false once every review has
\* left startReview, by whatever path
C30_FlagFalseAtRest == reviews = <<>> => ~isReviewInProgress

====
